---------------------------- MODULE Spec2Model ----------------------------
(***************************************************************************)
(* Model of phys_tools/preprocess/raw.py: the raw-to-consolidated          *)
(* recording pipeline (process_spikegl_recording, process_oEphys_rec,      *)
(* resume and the helpers they call).                                      *)
(*                                                                         *)
(* Three specifications share the module:                                  *)
(*   SpecRT  the pure file helpers _separate_channels / _merge_channels,   *)
(*           applied to bounded byte files;                                *)
(*   Spec    one invocation of either orchestrator, step by step, on an    *)
(*           abstract file system, followed by an optional resume();       *)
(*   SpecFn  one call of one helper (_read_meta, _make_lfp's decimation,   *)
(*           _find_pl_times, _rm_pl_i) on bounded arguments.               *)
(***************************************************************************)
EXTENDS Integers, Sequences, FiniteSets, TLC

\* ------------------------------------------------------------------ bounds
MaxCh == 3        \* channel counts 1..MaxCh in the byte-level helpers
MaxSpr == 4       \* samples_per_read values 1..MaxSpr
MaxWidth == 2     \* sample widths (dtype.itemsize) 1..MaxWidth

VARIABLES
    \* ---- SpecRT: _separate_channels then _merge_channels on one byte file
    rtPc,        \* "init" | "separated" | "appended" | "merged" | "error" | "append_error"
    rtRaw,       \* the multiplexed raw file, a sequence of bytes
    rtNch,       \* len(channels)
    rtWidth,     \* dtype.itemsize
    rtSprSep,    \* samples_per_read given to _separate_channels
    rtSprMrg,    \* samples_per_read given to _merge_channels
    rtOverwrite, \* overwrite flag of _separate_channels
    rtAppend,    \* append flag of _separate_channels
    rtChan0,     \* the per-channel scratch files before the call
    rtChan,      \* the per-channel scratch files, by channel index
    rtStatus,    \* "none", "ok" or the exception the last call raised
    rtOut        \* the file _merge_channels writes to

rtVars == <<rtPc, rtRaw, rtNch, rtWidth, rtSprSep, rtSprMrg, rtOverwrite,
            rtAppend, rtChan0, rtChan, rtStatus, rtOut>>

VARIABLES
    \* ---- Spec: the arguments of one orchestrator invocation
    variant,     \* "sgl" = process_spikegl_recording, "oephys" = process_oEphys_rec
    clean,       \* clean_on_excemption / clean_on_exemption
    prefixKind,  \* save_prefix: "plain" name, "reldir" (dir/name) or "abs" (/dir/name)
    nRuns,       \* len(raw_fns) / len(raw_folders)
    neural,      \* neural_channel_numbers, a sequence
    streamChs,   \* the channel numbers of meta_stream_dict (its values)
    eventChs,    \* the channel numbers of meta_event_dict (its values)
    plTrig,      \* pl_trig_ch: <<>> for None, <<c>> for channel c
    pre0,        \* the final artifacts that exist when the invocation starts
    \* ---- the environment: what the input files hold, fixed once read
    runData,     \* per run: [chs, adc, len, fs]
    \* ---- the file system
    exists,      \* the set of paths that exist
    created,     \* the paths this invocation created, wrote or replaced
    tmpdir,      \* whether the scratch directory exists
    datSegs,     \* content of the recording being built: sequence of run segments
    lfp,         \* content of the LFP store: [ch -> sequence of run segments]
    chanLen,     \* samples held by each per-channel scratch file
    plDone,      \* the scratch files whose samples went through _rm_pl_i
    metaTab,     \* run_ends table of the metadata store written last
    descriptor,  \* resume.pickle: [exists, rec]
    \* ---- the orchestrator's control state and locals
    pc,          \* the step about to run
    iRun,        \* loop index i / i_run (1-based; runs 1..iRun-1 are processed)
    phase,       \* "pre", "try1" (the only try of sgl), "try2", "end"
    outcome,     \* "running", "refused", "raised", "swallowed", "ok"
    failedAt,    \* the step whose exception ended a try block, or "none"
    totalSize,   \* total_size (sgl): summed raw input sizes
    sampsPerCh,  \* samps_per_ch (sgl)
    fsLocal,     \* the local fs: <<>> while unbound, else <<value>>
    plEdges,     \* len(pl_trig_times) of the current run: <<>> if not computed
    nSamplesByCh,\* n_samples_by_ch (oephys)
    totalExpected, \* total_expected_dat_size (oephys)
    prefixes,    \* separated_prefixes / adc_prefixes: the runs entered so far
    completed,   \* completed (oephys)
    metaArgs,    \* the arguments of the last make_meta call of the orchestrator
    \* ---- history, for stating the claims
    everTmp,     \* the scratch directory has existed at some point
    milestones,  \* which of "runs", "meta", "size" have completed successfully
    \* ---- resume()
    resPc,       \* "idle" | "done"
    resStatus,   \* "none", "ok" or the exception resume() raised
    resArgs      \* the arguments resume() passed to make_meta

orchVars == <<variant, clean, prefixKind, nRuns, neural, streamChs, eventChs, plTrig,
              pre0, plEdges, runData, exists, created, tmpdir, datSegs, lfp, chanLen, plDone,
              metaTab,
              descriptor, pc, iRun, phase, outcome, failedAt, totalSize, sampsPerCh,
              fsLocal, nSamplesByCh, totalExpected, prefixes, completed, metaArgs,
              everTmp, milestones, resPc, resStatus, resArgs>>

VARIABLES
    \* ---- SpecFn: one call of one helper function
    fnPc,        \* "idle", or the function about to be called, or "done"
    fnIn,        \* the arguments of the call, a record
    fnOut        \* what the call returned or raised, a record

fnVars == <<fnPc, fnIn, fnOut>>

\* ------------------------------------------------------- byte-file helpers
Min(a, b) == IF a < b THEN a ELSE b

\* ceil(a / b) for b > 0
CeilDiv(a, b) == (a + b - 1) \div b

\* np.fromfile(f, dtype, count) with the file position at byte `off`: at
\* most `count` whole samples, returned as bytes.
FromFile(file, w, off, count) ==
    LET avail == IF off >= Len(file) THEN 0 ELSE (Len(file) - off) \div w
        n == Min(count, avail)
    IN  SubSeq(file, off + 1, off + n * w)

\* a[:, i] of a block reshaped to (rows, nch): the bytes of column i.
RECURSIVE Column(_, _, _, _, _)
Column(block, w, nch, i, row) ==
    IF (row * nch + i + 1) * w > Len(block) THEN <<>>
    ELSE SubSeq(block, (row * nch + i) * w + 1, (row * nch + i + 1) * w)
         \o Column(block, w, nch, i, row + 1)

\* A scratch file: whether the path exists, and its bytes.
NoFile == [exists |-> FALSE, bytes |-> <<>>]
EmptyFile == [exists |-> TRUE, bytes |-> <<>>]

\* open(fn, 'wb') followed by a write of `data`: the old contents are lost.
WriteTo(file, data) == [exists |-> TRUE, bytes |-> data]

\* open(fn, 'ab') followed by a write of `data`: creates the file if needed.
AppendTo(file, data) == [exists |-> TRUE, bytes |-> file.bytes \o data]

\* The while loop of _separate_channels: one block per iteration, each
\* channel file appended ('ab') with its column of the block.
RECURSIVE SeparateLoop(_, _, _, _, _, _)
SeparateLoop(raw, w, nch, spr, off, files) ==
    LET a == FromFile(raw, w, off, spr)
    IN  IF Len(a) = 0 THEN files
        ELSE SeparateLoop(raw, w, nch, spr, off + Len(a),
                          [i \in 1..nch |-> AppendTo(files[i], Column(a, w, nch, i - 1, 0))])

\* `with open(fn, 'wb')` after the existence loop: fn is the loop variable,
\* left at the last channel's file name; only that file is created/truncated.
TruncateTargets(nch) == {nch}

\* _separate_channels(raw_fn, channels, prefix, overwrite, append,
\* samples_per_read, dtype) on the scratch files `files`.
\* Result: [status, files].
SeparateChannels(raw, w, nch, samples_per_read, files, overwrite, append) ==
    LET spr == samples_per_read - (samples_per_read % nch)
        truncated == [i \in 1..nch |->
                        IF i \in TruncateTargets(nch) THEN EmptyFile ELSE files[i]]
        \* state of the scratch files once the flag handling has passed
        opened == IF append THEN files ELSE truncated
    IN  IF ~overwrite /\ ~append /\ \E i \in 1..nch : files[i].exists
        THEN [status |-> "ValueError", files |-> files]
        ELSE IF ~append /\ overwrite
        THEN [status |-> "NameError", files |-> files]      \* fn was never bound
        ELSE IF append /\ \E i \in 1..nch : ~files[i].exists
        THEN [status |-> "FileNotFoundError", files |-> files]
        ELSE IF append /\ Cardinality({Len(files[i].bytes) : i \in 1..nch}) # 1
        THEN [status |-> "AssertionError", files |-> files]
        ELSE IF spr * w = 0
        THEN [status |-> "ZeroDivisionError", files |-> opened]
        ELSE IF Len(raw) % (w * nch) # 0
        THEN [status |-> "AssertionError", files |-> opened]
        ELSE [status |-> "ok", files |-> SeparateLoop(raw, w, nch, spr, 0, opened)]

\* temp_array[:rows, :].tofile(f): the rows of the block, each row the
\* samples of channels 1..nch in order (C order).
RECURSIVE Interleave(_, _, _, _, _, _)
Interleave(blocks, w, nch, rows, r, i) ==
    IF r >= rows THEN <<>>
    ELSE IF i > nch THEN Interleave(blocks, w, nch, rows, r + 1, 1)
    ELSE SubSeq(blocks[i], r * w + 1, (r + 1) * w)
         \o Interleave(blocks, w, nch, rows, r, i + 1)

\* Where the merge loop moves `seek` after a block.
SeekAfter(seek, stepsize_samps, w) == seek + stepsize_samps * w

\* The while loop of _merge_channels: every channel file is read at byte
\* offset `seek`, the block is written interleaved, seek advances by
\* stepsize_bytes.
RECURSIVE MergeLoop(_, _, _, _, _, _)
MergeLoop(files, w, nch, stepsize_samps, seek, out) ==
    IF seek >= Len(files[1].bytes) THEN out
    ELSE LET blocks == [i \in 1..nch |->
                          FromFile(files[i].bytes, w, seek, stepsize_samps)]
             rows == Len(blocks[nch]) \div w
         IN  MergeLoop(files, w, nch, stepsize_samps,
                       SeekAfter(seek, stepsize_samps, w),
                       out \o Interleave(blocks, w, nch, rows, 0, 1))

\* _merge_channels(prefix, channels, save_file_obj, samples_per_read, dtype):
\* the bytes appended to save_file_obj.  Result: [status, bytes].
MergeChannels(files, w, nch, samples_per_read) ==
    LET stepsize_samps == samples_per_read \div nch
    IN  IF \E i \in 1..nch : ~files[i].exists                \* os.path.getsize
        THEN [status |-> "FileNotFoundError", bytes |-> <<>>]
        ELSE IF Cardinality({Len(files[i].bytes) : i \in 1..nch}) # 1
        THEN [status |-> "AssertionError", bytes |-> <<>>]
        ELSE IF stepsize_samps * w = 0
        THEN [status |-> "ZeroDivisionError", bytes |-> <<>>]
        ELSE [status |-> "ok",
              bytes |-> MergeLoop(files, w, nch, stepsize_samps, 0, <<>>)]

\* A raw file of n bytes; byte k carries the label k, so that any
\* misplaced, dropped or repeated byte shows in the output.
LabelledFile(n) == [k \in 1..n |-> k]

\* Scratch files left by an earlier separation: one old sample row each
\* (labels below zero), so old and new bytes can be told apart.
OldFiles(nch, w) == [i \in 1..nch |->
                       [exists |-> TRUE, bytes |-> [k \in 1..w |-> 0 - (i * MaxWidth + k)]]]

\* Scratch files of which only the first channel's is left.
PartialFiles(nch, w) == [i \in 1..nch |-> IF i = 1 THEN OldFiles(nch, w)[i] ELSE NoFile]
\* ------------------------------------------------ orchestrator: the inputs
MaxRuns == 2      \* invocations of 1..MaxRuns runs
MaxLenUnits == 2  \* a channel of a run holds 40 * k samples, k in 1..MaxLenUnits
MaxEdges == 3     \* rising edges found on a trigger channel: 0..MaxEdges

\* np.dtype('int16').itemsize, the default file_dtype of both orchestrators
ItemSize == 2

\* target_freqency of _make_lfp
TargetFreq == 1000

Channels == {0, 1}
Arts == {"dat", "lfp", "meta"}
Lens == {40 * k : k \in 1..MaxLenUnits}
FsSet == {1200, 2400}

\* Channel lists in ascending order (neural_channel_numbers, chs).
RECURSIVE SortedSeq(_)
SortedSeq(S) ==
    IF S = {} THEN <<>>
    ELSE LET m == CHOOSE x \in S : \A y \in S : x <= y
         IN  <<m>> \o SortedSeq(S \ {m})

Range(s) == {s[k] : k \in 1..Len(s)}

RECURSIVE SumSeq(_)
SumSeq(s) == IF s = <<>> THEN 0 ELSE s[1] + SumSeq(Tail(s))

NonEmptySubsets(S) == SUBSET S \ {{}}

\* What `if pl_trig_ch:` tests: None and 0 are both false.
PlTruthy(pl) == pl # <<>> /\ pl[1] # 0

\* ------------------------------------------------- orchestrator: the paths
\* A path is <<directory, name, run, channel>>.  Directories: "out" is where
\* save_prefix points (it exists), "tmp" is the scratch directory tmp-<uuid4>,
\* "tmpsub" is tmp-<uuid4>/<directory part of save_prefix>, which nothing
\* creates.

\* os.path.join(tmpdirname, <name built from save_prefix>): an absolute
\* second component discards tmpdirname.
JoinTmp(kind) ==
    CASE kind = "plain" -> "tmp"
      [] kind = "reldir" -> "tmpsub"
      [] kind = "abs" -> "out"

\* dat_fn, lfp_fn, meta_fn
Final(a) == <<"out", a, 0, 0>>

\* temp_dat_fn, temp_lfp_fn, temp_meta_fn
Staged(a) == <<JoinTmp(prefixKind), a, 0, 0>>

\* _gen_channel_fn(separated_prefix, ch) (tag "ch") and
\* _gen_channel_fn(adc_prefix, ch) (tag "adc") of run r
ChanFn(tag, r, ch) == <<JoinTmp(prefixKind), tag, r, ch>>

DirExists(d) == d = "out" \/ (d = "tmp" /\ tmpdir)

InTmp(p) == p[1] \in {"tmp", "tmpsub"}

\* shutil.rmtree(tmpdirname): what is left of a set of paths
AfterRmtree(paths) == {p \in paths : ~InTmp(p)}

\* os.path.getsize(temp_dat_fn) of a recording made of run segments
DatSize(segs) ==
    SumSeq([k \in 1..Len(segs) |-> segs[k].n * Len(segs[k].chs) * ItemSize])

\* decimate(a, q, zero_phase=True) filters with filtfilt and an order-8 IIR
\* filter (9 coefficients): filtfilt pads 3 * 9 samples at each end and
\* raises ValueError unless the input is longer than that.
PadLen == 27

DecimateRaises(n) == n <= PadLen

\* A decimation that keeps only whole groups of q samples.
DecimatedLenWholeGroups(n, q) == n \div q

\* len(decimate(a, q, zero_phase=True)) for len(a) = n: every q-th sample
\* of the filtered signal, from the first on (y[::q]).
DecimatedLen(n, q) == CeilDiv(n, q)

\* ------------------------------------------- orchestrator: variable groups
argVars == <<variant, clean, prefixKind, nRuns, neural, streamChs, eventChs, plTrig, pre0>>
fsVars == <<exists, created, tmpdir, datSegs, lfp, chanLen, plDone, metaTab, descriptor>>
ctlVars == <<pc, iRun, phase, outcome, failedAt>>
locVars == <<totalSize, sampsPerCh, fsLocal, plEdges, nSamplesByCh, totalExpected,
             prefixes, completed, metaArgs>>
histVars == <<everTmp, milestones>>
resVars == <<resPc, resStatus, resArgs>>


\* ---------------------------------------------- orchestrator: control flow
\* An exception raised by `step`: before the try block it leaves the
\* function; in the first try block it reaches `except`/`finally`
\* (sgl, lines 191-200) or `except` (oephys, lines 378-384); in the second
\* try block of oephys it is re-raised (line 398) and `finally` runs
\* (lines 399-412) while it propagates.
Raise(step) ==
    /\ failedAt' = step
    /\ pc' = CASE phase = "pre" -> "done"
               [] phase = "try1" -> (IF variant = "sgl" THEN "finally" ELSE "except1")
               [] phase = "try2" -> "finally2"
    /\ outcome' = CASE phase = "pre" -> "raised"
                    [] phase = "try1" -> outcome
                    [] phase = "try2" -> "raising"
    /\ phase' = IF phase = "pre" THEN "end" ELSE phase
    /\ UNCHANGED iRun

Goto(step) ==
    /\ pc' = step
    /\ UNCHANGED <<iRun, phase, outcome, failedAt>>

\* The end of one loop iteration: next run, or leave the loop.
NextRun ==
    /\ iRun' = iRun + 1
    /\ pc' = IF iRun < nRuns THEN "run_begin"
             ELSE IF variant = "sgl" THEN "make_meta" ELSE "rename_dat"
    /\ UNCHANGED <<phase, outcome, failedAt>>

\* ------------------------------------------------ orchestrator: the steps

\* Lines 87-90 (sgl) / 252-255 (oephys): every input path must exist.
Start ==
    /\ pc = "start"
    /\ \E inputsExist \in BOOLEAN :
          IF inputsExist THEN Goto("check_finals") ELSE Raise("inputs")
    /\ UNCHANGED <<rtVars, fnVars, argVars, runData, fsVars, locVars, histVars, resVars>>

\* The final paths the pre-existence check looks at:
\* (dat_fn, lfp_fn, meta_fn) at line 101, (dat_fn, lfp_fn) at line 267.
CheckedFinals == IF variant = "sgl" THEN {"dat", "lfp", "meta"} ELSE {"dat", "lfp"}

\* Lines 101-104 / 267-270: return if a checked final artifact exists.
CheckFinals ==
    /\ pc = "check_finals"
    /\ IF \E a \in CheckedFinals : Final(a) \in exists
       THEN /\ pc' = "done"
            /\ outcome' = "refused"
            /\ phase' = "end"
            /\ UNCHANGED <<iRun, failedAt>>
       ELSE /\ pc' = IF variant = "sgl" THEN "read_metas" ELSE "mkdir"
            /\ phase' = IF variant = "sgl" THEN "pre" ELSE "try1"
            /\ UNCHANGED <<iRun, outcome, failedAt>>
    /\ UNCHANGED <<rtVars, fnVars, argVars, runData, fsVars, locVars, histVars, resVars>>

\* What one run's input can hold, at acquisition rate f.  sgl: the channels
\* of the .meta file and the samples per channel of the .bin file.  oephys:
\* the CH and ADC files of the folder and the length of each CH file that a
\* declared neural channel names (the other CH files are never opened; they
\* are given the shortest length).
SglRuns(f) ==
    {[chs |-> c, adc |-> {}, len |-> [x \in c |-> n], fs |-> f] :
        c \in NonEmptySubsets(Channels), n \in Lens}

OephysRuns(f) ==
    UNION {{[chs |-> c, adc |-> a, fs |-> f,
             len |-> [x \in c |-> IF x \in Range(neural) THEN l[x] ELSE 40]] :
                l \in [c \cap Range(neural) -> Lens]} :
              c \in NonEmptySubsets(Channels), a \in SUBSET Channels}

\* The acquisition rates a run of the invocation can have: any of FsSet for
\* the first run read, the same rate for the runs after it.
RunFs == IF runData = <<>> THEN FsSet ELSE {runData[1].fs}

\* os.path.getsize(r) of a multiplexed run
RawSize(rd) == SumSeq([k \in 1..Len(SortedSeq(rd.chs)) |->
                         rd.len[SortedSeq(rd.chs)[k]] * ItemSize])

\* Lines 106-123 (sgl): read every .meta, sum the raw sizes, assert equal
\* channel counts, compute samps_per_ch.
ReadMetas ==
    /\ pc = "read_metas"
    /\ \E f \in FsSet : \E rd \in [1..nRuns -> SglRuns(f)] :
          /\ runData' = rd
          /\ totalSize' = SumSeq([r \in 1..nRuns |-> RawSize(rd[r])])
          /\ fsLocal' = <<f>>
          /\ IF Cardinality({Cardinality(rd[r].chs) : r \in 1..nRuns}) # 1
             THEN /\ Raise("assert_nchs")
                  /\ UNCHANGED sampsPerCh
             ELSE /\ sampsPerCh' = (totalSize' \div Cardinality(rd[1].chs)) \div ItemSize
                  /\ pc' = "mkdir"
                  /\ phase' = "try1"
                  /\ UNCHANGED <<iRun, outcome, failedAt>>
    /\ UNCHANGED <<rtVars, fnVars, argVars, fsVars, plEdges, nSamplesByCh, totalExpected, prefixes,
                   completed, metaArgs, histVars, resVars>>

\* Lines 126 / 277: os.mkdir(tmpdirname).
Mkdir ==
    /\ pc = "mkdir"
    /\ tmpdir' = TRUE
    /\ everTmp' = TRUE
    /\ Goto("create_dat")
    /\ UNCHANGED <<rtVars, fnVars, argVars, runData, exists, created, datSegs, lfp, chanLen, plDone, metaTab,
                   descriptor, locVars, milestones, resVars>>

\* Lines 127-128 / 278-279: open(temp_dat_fn, 'wb').
CreateDat ==
    /\ pc = "create_dat"
    /\ IF DirExists(Staged("dat")[1])
       THEN /\ exists' = exists \cup {Staged("dat")}
            /\ created' = created \cup {Staged("dat")}
            /\ datSegs' = <<>>
            /\ Goto("run_begin")
       ELSE /\ Raise("create_dat")
            /\ UNCHANGED <<exists, created, datSegs>>
    /\ UNCHANGED <<rtVars, fnVars, argVars, runData, tmpdir, lfp, chanLen, plDone, metaTab, descriptor,
                   locVars, histVars, resVars>>

\* The channels a declared meta channel must be among: the run's channel
\* list (sgl, lines 142-146), the run's ADC files (oephys, lines 298-302).
MetaChannelSet(rd) == IF variant = "sgl" THEN rd.chs ELSE rd.adc

\* Lines 131-146 (sgl) / 282-302 (oephys): start of a loop iteration: the
\* prefix is recorded, the run's channel set is read, the declared neural
\* and meta channels are validated against it.
RunBegin ==
    /\ pc = "run_begin"
    /\ prefixes' = Append(prefixes, iRun)
    /\ \E rd \in (IF variant = "sgl" THEN {runData[iRun]}
                  ELSE UNION {OephysRuns(f) : f \in RunFs}) :
          /\ runData' = IF variant = "sgl" THEN runData
                        ELSE [r \in 1..iRun |-> IF r = iRun THEN rd ELSE runData[r]]
          /\ fsLocal' = IF variant = "sgl" THEN <<rd.fs>> ELSE <<0>>
          /\ IF /\ \A ch \in Range(neural) : ch \in rd.chs
                /\ \A v \in eventChs \cup streamChs : v \in MetaChannelSet(rd)
             THEN Goto(IF variant = "sgl" THEN "separate" ELSE "pl")
             ELSE Raise("validate")
    /\ UNCHANGED <<rtVars, fnVars, argVars, fsVars, totalSize, sampsPerCh, plEdges, nSamplesByCh,
                   totalExpected, completed, metaArgs, histVars, resVars>>

\* Line 147 (sgl): _separate_channels(r_fn, chs, separated_prefix): one
\* scratch file per recorded channel, each holding the run's samples of it.
Separate ==
    /\ pc = "separate"
    /\ LET rd == runData[iRun]
           fns == {ChanFn("ch", iRun, c) : c \in rd.chs}
       IN  IF fns \cap exists # {}
           THEN /\ Raise("separate")           \* 'Files already exist'
                /\ UNCHANGED <<exists, created, chanLen, plDone>>
           ELSE IF ~DirExists(JoinTmp(prefixKind))
           THEN /\ Raise("separate")
                /\ UNCHANGED <<exists, created, chanLen, plDone>>
           ELSE /\ exists' = exists \cup fns
                /\ created' = created \cup fns
                /\ chanLen' = [p \in DOMAIN chanLen \cup fns |->
                                 IF p \in fns THEN rd.len[p[4]] ELSE chanLen[p]]
                /\ UNCHANGED plDone      \* the separator filters nothing
                /\ Goto("pl")
    /\ UNCHANGED <<rtVars, fnVars, argVars, runData, tmpdir, datSegs, lfp, metaTab, descriptor,
                   locVars, histVars, resVars>>

\* Line 163: abs(n - expected) > expected * 0.2, with
\* expected = samps_per_ch / fs * 60, in whole numbers.
CalibrationFails(nEdges, samps, f) ==
    LET d == nEdges * f - samps * 60
        absd == IF d < 0 THEN 0 - d ELSE d
    IN  5 * absd > samps * 60

\* oephys, lines 304 and 330: the trigger is used for this run.
PlActive(rd) == PlTruthy(plTrig) /\ plTrig[1] \in rd.adc

\* Lines 149-167 (sgl): read the trigger channel's scratch file, find the
\* edges, check the edge count.  Lines 304-320 (oephys): load the trigger
\* ADC file and find the edges; no check.
Pl ==
    /\ pc = "pl"
    /\ LET rd == runData[iRun]
       IN  IF variant = "sgl"
           THEN IF ~PlTruthy(plTrig)
                THEN Goto("merge") /\ UNCHANGED plEdges
                ELSE IF ChanFn("ch", iRun, plTrig[1]) \notin exists
                THEN Raise("pl_read") /\ UNCHANGED plEdges
                ELSE \E e \in 0..MaxEdges :
                        /\ plEdges' = <<e>>
                        /\ IF CalibrationFails(e, sampsPerCh, rd.fs)
                           THEN Raise("pl_calibration")
                           ELSE Goto("merge")
           ELSE IF PlActive(rd)
                THEN \E e \in 0..MaxEdges : plEdges' = <<e>> /\ Goto("unpack")
                ELSE Goto("unpack") /\ UNCHANGED plEdges
    /\ UNCHANGED <<rtVars, fnVars, argVars, runData, fsVars, totalSize, sampsPerCh, fsLocal,
                   nSamplesByCh, totalExpected, prefixes, completed, metaArgs,
                   histVars, resVars>>

\* _rm_pl_i, line 589: np.diff(pl_edge_idx).max() needs two edges.
RmPlRaises(nEdges) == nEdges < 2

\* Whether the call on a run's first neural channel raises.  With two or
\* more edges it depends on where the edges lie in the signal (lines 611-623:
\* the row written outside the stack, the clipped slice), which the run
\* record does not hold: either outcome.
RmPlOutcomes(nEdges) == IF RmPlRaises(nEdges) THEN {TRUE} ELSE BOOLEAN

\* Lines 321-333 (oephys): every neural channel is loaded, its length is
\* appended to n_samples_by_ch, fs is read from the first header, the
\* channel is filtered if the trigger is used and written to scratch.
Unpack ==
    /\ pc = "unpack"
    /\ LET rd == runData[iRun]
           fns == {ChanFn("ch", iRun, c) : c \in Range(neural)}
       IN  \E rmPlFails \in (IF PlActive(rd) THEN RmPlOutcomes(plEdges[1]) ELSE {FALSE}) :
           IF rmPlFails
           THEN /\ nSamplesByCh' = Append(nSamplesByCh, rd.len[neural[1]])
                /\ fsLocal' = <<rd.fs>>
                /\ Raise("rm_pl")
                /\ UNCHANGED <<exists, created, chanLen, plDone>>
           ELSE IF ~DirExists(JoinTmp(prefixKind))
           THEN /\ nSamplesByCh' = Append(nSamplesByCh, rd.len[neural[1]])
                /\ fsLocal' = <<rd.fs>>
                /\ Raise("unpack")
                /\ UNCHANGED <<exists, created, chanLen, plDone>>
           ELSE /\ nSamplesByCh' = nSamplesByCh \o
                                      [k \in 1..Len(neural) |-> rd.len[neural[k]]]
                /\ fsLocal' = <<rd.fs>>
                /\ exists' = exists \cup fns
                /\ created' = created \cup fns
                /\ chanLen' = [p \in DOMAIN chanLen \cup fns |->
                                 IF p \in fns THEN rd.len[p[4]] ELSE chanLen[p]]
                /\ plDone' = IF PlActive(rd) THEN plDone \cup fns    \* line 330-331
                             ELSE plDone \ fns
                /\ Goto("account")
    /\ UNCHANGED <<rtVars, fnVars, argVars, runData, tmpdir, datSegs, lfp, metaTab, descriptor,
                   totalSize, sampsPerCh, plEdges, totalExpected, prefixes, completed,
                   metaArgs, histVars, resVars>>

\* Lines 336-346 (oephys): sum n_samples_by_ch, require every entry to
\* equal the first, add the bytes to total_expected_dat_size.
Account ==
    /\ pc = "account"
    /\ IF \E k \in 1..Len(nSamplesByCh) : nSamplesByCh[k] # nSamplesByCh[1]
       THEN Raise("equal_length") /\ UNCHANGED totalExpected
       ELSE /\ totalExpected' = totalExpected + ItemSize * SumSeq(nSamplesByCh)
            /\ Goto("merge")
    /\ UNCHANGED <<rtVars, fnVars, argVars, runData, fsVars, totalSize, sampsPerCh, fsLocal, plEdges,
                   nSamplesByCh, prefixes, completed, metaArgs, histVars, resVars>>

\* The channel list handed to _merge_channels: chs at line 171 (sgl),
\* neural_channel_numbers at line 351 (oephys).
MergedChannels(rd) == IF variant = "sgl" THEN SortedSeq(rd.chs) ELSE neural

\* A recording reopened 'wb' for each run: the run's merge replaces what
\* earlier runs wrote.
DatReopenedForWrite(old, seg) == <<seg>>

\* How the recording is opened for a run's merge: 'ab' keeps what is there.
DatAfterMerge(old, seg) == Append(old, seg)

\* Lines 169-172 / 349-352: open(temp_dat_fn, 'ab') and _merge_channels.
Merge ==
    /\ pc = "merge"
    /\ LET rd == runData[iRun]
           chs == MergedChannels(rd)
           fn(k) == ChanFn("ch", iRun, chs[k])
           p == Staged("dat")
       IN  IF ~DirExists(p[1])
           THEN Raise("merge") /\ UNCHANGED <<exists, created, datSegs>>
           ELSE IF \E k \in 1..Len(chs) : fn(k) \notin exists
           THEN /\ Raise("merge")
                /\ exists' = exists \cup {p}
                /\ created' = created \cup {p}
                /\ UNCHANGED datSegs
           ELSE IF Cardinality({chanLen[fn(k)] : k \in 1..Len(chs)}) # 1
           THEN /\ Raise("merge")              \* assert len(set(sizes)) == 1
                /\ exists' = exists \cup {p}
                /\ created' = created \cup {p}
                /\ UNCHANGED datSegs
           ELSE /\ exists' = exists \cup {p}
                /\ created' = created \cup {p}
                /\ datSegs' = DatAfterMerge(IF p \in exists THEN datSegs ELSE <<>>,
                                  [run |-> iRun, chs |-> chs, n |-> chanLen[fn(1)],
                                   pl |-> {chs[k] : k \in {j \in 1..Len(chs) :
                                                             fn(j) \in plDone}}])
                /\ Goto(IF variant = "sgl" THEN "lfp" ELSE "size_assert")
    /\ UNCHANGED <<rtVars, fnVars, argVars, runData, tmpdir, lfp, chanLen, plDone, metaTab, descriptor,
                   locVars, histVars, resVars>>

\* Line 354 (oephys): assert os.path.getsize(temp_dat_fn) == total_expected_dat_size.
SizeAssert ==
    /\ pc = "size_assert"
    /\ IF DatSize(datSegs) = totalExpected
       THEN /\ Goto("lfp")
            /\ milestones' = IF iRun < nRuns THEN milestones
                             ELSE milestones \cup {"size"}
       ELSE /\ Raise("size_assert")
            /\ UNCHANGED milestones
    /\ UNCHANGED <<rtVars, fnVars, argVars, runData, fsVars, locVars, everTmp, resVars>>

\* A caller that asks for a new container on every call.
CreateLfpFileAlways(i) == TRUE

\* create_lfp_file, lines 174-177 / 356-359
CreateLfpFile(i) == i = 1

\* Lines 661-670 of _make_lfp: how the container is opened, given whether
\* its path exists, create_file, and whether its directory exists.
\* "ValueError" = 'LFP file already exists.'; "created" = opened 'w' with
\* an empty series per channel, then reopened 'r+'; "opened" = the existing
\* container opened 'r+'; "FileNotFoundError" = nothing to open or no
\* directory to create it in.
LfpOpen(present, create, dirOk) ==
    IF present /\ create THEN "ValueError"
    ELSE IF create THEN (IF dirOk THEN "created" ELSE "FileNotFoundError")
    ELSE IF present THEN "opened"
    ELSE "FileNotFoundError"

\* _make_lfp(raw_files_prefix, channels, lfp_filename, acquistion_frequency,
\* create_file), lines 657-678, for the scratch files of run r.
\* Result: [status, made, lfp]: made = the container file exists afterwards.
MakeLfpResult(r, channels, create, f) ==
    LET p == Staged("lfp")
        factor == f \div TargetFreq
        fn(c) == ChanFn("ch", r, c)
        seg(c) == [run |-> r, n |-> DecimatedLen(chanLen[fn(c)], factor),
                   pl |-> fn(c) \in plDone]
        base == IF create THEN [c \in Range(channels) |-> <<>>] ELSE lfp
    IN  IF factor = 0                                   \* line 659: fs / 0
        THEN [status |-> "ZeroDivisionError", made |-> FALSE, lfp |-> lfp]
        ELSE IF LfpOpen(p \in exists, create, DirExists(p[1])) = "ValueError"
        THEN [status |-> "ValueError", made |-> TRUE, lfp |-> lfp]
        ELSE IF LfpOpen(p \in exists, create, DirExists(p[1])) = "FileNotFoundError"
        THEN [status |-> "FileNotFoundError", made |-> FALSE, lfp |-> lfp]
        ELSE IF \E c \in Range(channels) :
                                 \/ fn(c) \notin exists
                                 \/ c \notin DOMAIN base
                                 \/ DecimateRaises(chanLen[fn(c)])
        THEN [status |-> "Error", made |-> TRUE, lfp |-> base]
        ELSE [status |-> "ok", made |-> TRUE,
              lfp |-> [c \in DOMAIN base |->
                         IF c \in Range(channels) THEN Append(base[c], seg(c))
                         ELSE base[c]]]

\* Lines 174-179 / 356-361: the LFP of the run just merged.
MakeLfp ==
    /\ pc = "lfp"
    /\ LET r == MakeLfpResult(iRun, neural, CreateLfpFile(iRun), fsLocal[1])
           made == IF r.made THEN {Staged("lfp")} ELSE {}
       IN  /\ exists' = exists \cup made
           /\ created' = IF r.status = "ValueError" THEN created ELSE created \cup made
           /\ lfp' = r.lfp
           /\ IF r.status # "ok"
              THEN Raise("lfp") /\ UNCHANGED milestones
              ELSE IF variant = "sgl"
              THEN /\ NextRun
                   /\ milestones' = IF iRun < nRuns THEN milestones
                                    ELSE milestones \cup {"runs"}
              ELSE Goto("adc") /\ UNCHANGED milestones
    /\ UNCHANGED <<rtVars, fnVars, argVars, runData, tmpdir, datSegs, chanLen, plDone, metaTab, descriptor,
                   locVars, everTmp, resVars>>

\* Lines 367-373 (oephys): every ADC file is to be loaded with
\* load_continuous, a name the module does not define: NameError on the
\* first ADC channel, before anything is written.
Adc ==
    /\ pc = "adc"
    /\ IF runData[iRun].adc # {}
       THEN Raise("adc_load") /\ UNCHANGED milestones
       ELSE /\ NextRun
            /\ milestones' = IF iRun < nRuns THEN milestones
                             ELSE milestones \cup {"runs"}
    /\ UNCHANGED <<rtVars, fnVars, argVars, runData, fsVars, locVars, everTmp, resVars>>

\* make_meta, line 695 and the loops at 709 and 723: the channel `ch` whose
\* scratch file is sized for run_ends is the loop variable left by the
\* event loop, else by the stream loop, else the initial 1.
MetaRefCh ==
    IF eventChs # {} THEN CHOOSE c \in eventChs : TRUE
    ELSE IF streamChs # {} THEN CHOOSE c \in streamChs : TRUE
    ELSE 1

\* A table of each run's own sample count (`end` reset for every prefix).
RunEndsPerRun(tag, prefs, ch) ==
    [k \in 1..Len(prefs) |-> chanLen[ChanFn(tag, prefs[k], ch)]]

\* run_ends, lines 738-744: cumulative samples of channel ch over the prefixes
RunEnds(tag, prefs, ch) ==
    [k \in 1..Len(prefs) |->
        SumSeq([j \in 1..k |-> chanLen[ChanFn(tag, prefs[j], ch)]])]

\* make_meta(raw_files_prefixes, stream_channels, event_channels,
\* voyeur_files, save_fn, acquistion_frequency, dtype), lines 695-747, with
\* the prefixes `prefs` of kind `tag` and save_fn at path p.
\* Result: [status, made, run_ends]: made = save_fn exists afterwards.
MakeMetaResult(tag, prefs, p, registered) ==
    LET missing(c) == \E k \in 1..Len(prefs) : ChanFn(tag, prefs[k], c) \notin exists
        fail(e) == [status |-> e, made |-> TRUE, run_ends |-> <<>>]
    IN  IF ~DirExists(p[1])
        THEN [status |-> "FileNotFoundError", made |-> FALSE, run_ends |-> <<>>]
        ELSE IF \E c \in streamChs : missing(c) THEN fail("FileNotFoundError")
        ELSE IF streamChs # {} /\ prefs = <<>> THEN fail("ValueError")
        ELSE IF \E c \in eventChs : missing(c) THEN fail("FileNotFoundError")
        ELSE IF eventChs # {} /\ prefs = <<>> THEN fail("ValueError")
        ELSE IF eventChs # {} /\ ~registered THEN fail("KeyError")
        ELSE IF missing(MetaRefCh) THEN fail("FileNotFoundError")
        ELSE [status |-> "ok", made |-> TRUE,
              run_ends |-> RunEnds(tag, prefs, MetaRefCh)]

\* The prefixes the orchestrator hands to make_meta: separated_prefixes at
\* line 181 (sgl), adc_prefixes at line 390 (oephys).
MetaPrefixTag == IF variant = "sgl" THEN "ch" ELSE "adc"

\* The argument tuple of a make_meta call (debug_plots left out).
MetaArgs(tag, prefs, f) ==
    [prefixes |-> <<tag, prefs>>, streams |-> streamChs, events |-> eventChs,
     voyeur |-> nRuns, save_fn |-> Staged("meta"), fs |-> f, dtype |-> ItemSize]

\* Lines 181-183 (sgl), 390-392 (oephys): the make_meta call.
MakeMeta ==
    /\ pc = "make_meta"
    /\ IF fsLocal = <<>>
       THEN /\ Raise("make_meta")              \* fs is not bound: NameError
            /\ UNCHANGED <<exists, created, metaTab, metaArgs, milestones>>
       ELSE \E registered \in (IF eventChs = {} THEN {TRUE} ELSE BOOLEAN) :
            LET r == MakeMetaResult(MetaPrefixTag, prefixes, Staged("meta"), registered)
                made == IF r.made THEN {Staged("meta")} ELSE {}
            IN  /\ exists' = exists \cup made
                /\ created' = created \cup made
                /\ metaTab' = r.run_ends
                /\ metaArgs' = <<MetaArgs(MetaPrefixTag, prefixes, fsLocal[1])>>
                /\ IF r.status = "ok"
                   THEN /\ milestones' = milestones \cup {"meta"}
                        /\ Goto(IF variant = "sgl" THEN "size_check" ELSE "rename_meta")
                   ELSE /\ Raise("make_meta")
                        /\ UNCHANGED milestones
    /\ UNCHANGED <<rtVars, fnVars, argVars, runData, tmpdir, datSegs, lfp, chanLen, plDone, descriptor,
                   totalSize, sampsPerCh, fsLocal, plEdges, nSamplesByCh,
                   totalExpected, prefixes, completed, everTmp, resVars>>

\* Line 185 (sgl): assert total_size == os.path.getsize(temp_dat_fn).
SizeCheck ==
    /\ pc = "size_check"
    /\ IF Staged("dat") \in exists /\ totalSize = DatSize(datSegs)
       THEN /\ milestones' = milestones \cup {"size"}
            /\ Goto("rename_dat")
       ELSE /\ Raise("size_check")
            /\ UNCHANGED milestones
    /\ UNCHANGED <<rtVars, fnVars, argVars, runData, fsVars, locVars, everTmp, resVars>>

\* Where control goes after the rename of artifact a.
AfterRename(a) ==
    CASE a = "dat" -> "rename_lfp"
      [] a = "lfp" -> (IF variant = "sgl" THEN "rename_meta" ELSE "make_meta")
      [] a = "meta" -> (IF variant = "sgl" THEN "finally" ELSE "finally2")

\* Lines 188-190 (sgl), 375-376 and 393-394 (oephys):
\* os.rename(temp_<a>_fn, <a>_fn).
Rename(a) ==
    /\ pc = CASE a = "dat" -> "rename_dat"
               [] a = "lfp" -> "rename_lfp"
               [] a = "meta" -> "rename_meta"
    /\ IF Staged(a) \notin exists
       THEN /\ Raise("rename")
            /\ UNCHANGED <<exists, created, completed>>
       ELSE /\ exists' = (exists \ {Staged(a)}) \cup {Final(a)}
            /\ created' = (created \ {Staged(a)}) \cup {Final(a)}
            /\ completed' = IF variant = "oephys" /\ a = "meta" THEN TRUE ELSE completed
            /\ pc' = AfterRename(a)
            /\ phase' = IF variant = "oephys" /\ a = "lfp" THEN "try2" ELSE phase
            /\ UNCHANGED <<iRun, outcome, failedAt>>
    /\ UNCHANGED <<rtVars, fnVars, argVars, runData, tmpdir, datSegs, lfp, chanLen, plDone, metaTab, descriptor,
                   totalSize, sampsPerCh, fsLocal, plEdges, nSamplesByCh,
                   totalExpected, prefixes, metaArgs, histVars, resVars>>

\* shutil.rmtree(tmpdirname)
Rmtree ==
    /\ exists' = AfterRmtree(exists)
    /\ created' = AfterRmtree(created)
    /\ chanLen' = [p \in AfterRmtree(DOMAIN chanLen) |-> chanLen[p]]
    /\ plDone' = AfterRmtree(plDone)
    /\ tmpdir' = FALSE

\* A `finally` that removes the scratch directory only after a run without
\* exception.
SglCleansOnSuccessOnly == clean /\ tmpdir /\ failedAt = "none"

\* Whether the `finally` of sgl removes the scratch directory (line 194).
SglCleans == clean /\ tmpdir

\* Lines 191-200 (sgl): the exception, if any, is logged and swallowed;
\* the scratch directory is removed if clean_on_excemption.
Finally ==
    /\ pc = "finally"
    /\ IF SglCleans THEN Rmtree ELSE UNCHANGED <<exists, created, chanLen, plDone, tmpdir>>
    /\ pc' = "done"
    /\ phase' = "end"
    /\ outcome' = IF failedAt = "none" THEN "ok" ELSE "swallowed"
    /\ UNCHANGED <<rtVars, fnVars, argVars, runData, datSegs, lfp, metaTab, descriptor, iRun, failedAt,
                   locVars, histVars, resVars>>

\* Whether the first `except` of oephys removes the scratch directory and
\* re-raises (line 381).
OephysCleansInExcept == tmpdir /\ clean

\* Lines 378-387 (oephys): the first try block failed.  With the scratch
\* directory present and clean_on_exemption set it is removed and the
\* exception re-raised; otherwise the exception is swallowed and the
\* function goes on to its second try block.
Except1 ==
    /\ pc = "except1"
    /\ IF OephysCleansInExcept
       THEN /\ Rmtree
            /\ pc' = "done"
            /\ phase' = "end"
            /\ outcome' = "raised"
       ELSE /\ UNCHANGED <<exists, created, chanLen, plDone, tmpdir>>
            /\ pc' = "make_meta"
            /\ phase' = "try2"
            /\ UNCHANGED outcome
    /\ UNCHANGED <<rtVars, fnVars, argVars, runData, datSegs, lfp, metaTab, descriptor, iRun, failedAt,
                   locVars, histVars, resVars>>

\* The tuple pickled at lines 409-410, by field name.
PickledFields ==
    <<"adc_prefixes", "meta_stream_dict", "meta_event_dict", "voyeur_fns",
      "temp_meta_fn", "fs", "file_dtype", "debug_plots", "tmpdirname", "save_prefix">>

\* The names the loaded tuple is unpacked into at lines 421-422.
LoadedFields ==
    <<"adc_prefixes", "meta_stream_dict", "meta_event_dict", "voyeur_fns",
      "temp_meta_fn", "fs", "file_dtype", "debug_plots", "save_prefix">>

\* The value each pickled field has when the descriptor is written.
FieldValue(name) ==
    CASE name = "adc_prefixes" -> <<"adc", prefixes>>
      [] name = "meta_stream_dict" -> streamChs
      [] name = "meta_event_dict" -> eventChs
      [] name = "voyeur_fns" -> nRuns
      [] name = "temp_meta_fn" -> Staged("meta")
      [] name = "fs" -> fsLocal[1]
      [] name = "file_dtype" -> ItemSize
      [] name = "debug_plots" -> TRUE
      [] name = "tmpdirname" -> "tmp"
      [] name = "save_prefix" -> prefixKind

\* pickle.dump of the tuple: a sequence of [name, val], in order.
Pickled == [k \in 1..Len(PickledFields) |->
              [name |-> PickledFields[k], val |-> FieldValue(PickledFields[k])]]

\* Whether the `finally` of the second try block removes the scratch
\* directory (line 400).
OephysCleansInFinally == tmpdir /\ (completed \/ clean)

\* A `finally` that writes the descriptor after removing the scratch
\* directory as well.
OephysWritesDescriptorAlso(cleaned) == cleaned \/ ~clean

\* Line 403, `elif not clean_on_exemption`: whether the `finally` writes
\* resume.pickle, given whether its first branch removed the directory.
OephysWritesDescriptor(cleaned) == ~cleaned /\ ~clean

\* Lines 399-412 (oephys): remove the scratch directory, or, with
\* clean_on_exemption false, write resume.pickle.  open(..., 'wb') creates
\* the file; building the tuple raises NameError while fs is unbound.
Finally2 ==
    /\ pc = "finally2"
    /\ IF OephysCleansInFinally
       THEN Rmtree
       ELSE UNCHANGED <<exists, created, chanLen, plDone, tmpdir>>
    /\ descriptor' = IF OephysWritesDescriptor(OephysCleansInFinally)
                     THEN [exists |-> TRUE,
                           rec |-> IF fsLocal = <<>> THEN <<>> ELSE Pickled]
                     ELSE descriptor
    /\ pc' = "done"
    /\ phase' = "end"
    /\ outcome' = IF outcome = "raising" THEN "raised" ELSE "ok"
    /\ UNCHANGED <<rtVars, fnVars, argVars, runData, datSegs, lfp, metaTab, iRun, failedAt,
                   locVars, histVars, resVars>>

\* The value bound to `name` by the tuple assignment of lines 421-422:
\* targets and values are paired by position.
Loaded(rec, name) ==
    LET k == CHOOSE j \in 1..Len(LoadedFields) : LoadedFields[j] = name
    IN  rec[k].val

\* Lines 414-430: resume(resume_file_path) on the descriptor the
\* orchestrator left.  pickle.load of an empty file raises EOFError; the
\* tuple assignment raises ValueError unless the lengths agree; then
\* make_meta is called with the loaded values.
Resume ==
    /\ pc = "done"
    /\ resPc = "idle"
    /\ descriptor.exists
    /\ resPc' = "done"
    /\ LET rec == descriptor.rec
       IN  IF rec = <<>>
           THEN /\ resStatus' = "EOFError"
                /\ UNCHANGED <<resArgs, exists, created, metaTab>>
           ELSE IF Len(rec) # Len(LoadedFields)
           THEN /\ resStatus' = "ValueError"
                /\ UNCHANGED <<resArgs, exists, created, metaTab>>
           ELSE \E registered \in (IF eventChs = {} THEN {TRUE} ELSE BOOLEAN) :
                LET pf == Loaded(rec, "adc_prefixes")
                    p == Loaded(rec, "temp_meta_fn")
                    r == MakeMetaResult(pf[1], pf[2], p, registered)
                    made == IF r.made THEN {p} ELSE {}
                IN  /\ resStatus' = r.status
                    /\ resArgs' = <<[prefixes |-> pf,
                                     streams |-> Loaded(rec, "meta_stream_dict"),
                                     events |-> Loaded(rec, "meta_event_dict"),
                                     voyeur |-> Loaded(rec, "voyeur_fns"),
                                     save_fn |-> p,
                                     fs |-> Loaded(rec, "fs"),
                                     dtype |-> Loaded(rec, "file_dtype")]>>
                    /\ exists' = exists \cup made
                    /\ created' = created \cup made
                    /\ metaTab' = r.run_ends
    /\ UNCHANGED <<rtVars, fnVars, argVars, runData, tmpdir, datSegs, lfp, chanLen, plDone, descriptor,
                   ctlVars, locVars, histVars>>


\* ------------------------------------------------- single-function calls
MaxChanLen == 36   \* channel lengths 0..MaxChanLen in a single _make_lfp call

\* acquistion_frequency values of a single _make_lfp call: downsample
\* factors 0 (below the target frequency), 1, 2, 3 and 4
LfpFsSet == {500, 1000, 1500, 2000, 3000, 4000}

\* _make_lfp on one channel file of n samples, lines 658-677: what the call
\* appends to the channel's series.  Result: [status, n].
MakeLfpAppends(n, f) ==
    LET factor == f \div TargetFreq
    IN  IF factor = 0
        THEN [status |-> "ZeroDivisionError", n |-> 0]
        ELSE IF DecimateRaises(n)
        THEN [status |-> "ValueError", n |-> 0]
        ELSE [status |-> "ok", n |-> DecimatedLen(n, factor)]

\* ---- _read_meta: the snsSaveChanSubset value, a string of characters
MaxItems == 2      \* entries (literal or low:high) in a written channel spec

DigitChars == <<"0", "1", "2", "3", "4", "5", "6", "7", "8", "9">>

\* The text "all"
AllText == <<"a", "l", "l">>

\* The numbers a written channel spec is built from.
SpecNumbers == {0, 1, 3, 12}

\* str.split(sep): the pieces between the separators, empty pieces kept.
RECURSIVE Split(_, _)
Split(s, sep) ==
    IF \A k \in 1..Len(s) : s[k] # sep
    THEN <<s>>
    ELSE LET k == CHOOSE i \in 1..Len(s) :
                     s[i] = sep /\ \A j \in 1..(i - 1) : s[j] # sep
         IN  <<SubSeq(s, 1, k - 1)>> \o Split(SubSeq(s, k + 1, Len(s)), sep)

\* Whether int(tok) returns: a non-empty run of decimal digits (the strings
\* here hold no sign, blank or underscore).
IsInt(tok) == tok # <<>> /\ \A k \in 1..Len(tok) : tok[k] \in Range(DigitChars)

\* int(tok) for a run of decimal digits
RECURSIVE IntOf(_)
IntOf(tok) ==
    IF tok = <<>> THEN 0
    ELSE 10 * IntOf(SubSeq(tok, 1, Len(tok) - 1))
         + (CHOOSE d \in 0..9 : DigitChars[d + 1] = tok[Len(tok)])

\* A range whose upper end is left out (no `high += 1`).
RangeChannelsHalfOpen(low, high) == [k \in 1..(high - low) |-> low + (k - 1)]

\* Lines 456-459: high += 1; for ii in range(low, high): channels.append(ii)
RangeChannels(low, high) == [k \in 1..(high + 1 - low) |-> low + (k - 1)]

\* Lines 454-460: the channels one comma-separated piece contributes.
\* Result: [status, channels].
PieceChannels(piece) ==
    IF \E k \in 1..Len(piece) : piece[k] = ":"
    THEN LET parts == Split(piece, ":")
         IN  IF Len(parts) # 2 \/ ~IsInt(parts[1]) \/ ~IsInt(parts[2])
             THEN [status |-> "ValueError", channels |-> <<>>]
             ELSE [status |-> "ok",
                   channels |-> RangeChannels(IntOf(parts[1]), IntOf(parts[2]))]
    ELSE IF ~IsInt(piece)
    THEN [status |-> "ValueError", channels |-> <<>>]
    ELSE [status |-> "ok", channels |-> <<IntOf(piece)>>]

\* The loop of line 454 over the pieces, in order.
RECURSIVE PiecesChannels(_)
PiecesChannels(pieces) ==
    IF pieces = <<>> THEN [status |-> "ok", channels |-> <<>>]
    ELSE LET h == PieceChannels(pieces[1])
             t == PiecesChannels(Tail(pieces))
         IN  IF h.status # "ok" THEN h
             ELSE IF t.status # "ok" THEN t
             ELSE [status |-> "ok", channels |-> h.channels \o t.channels]

\* _read_meta, lines 447-460: the channel list for the snsSaveChanSubset
\* value chstr.  Result: [status, channels].
ReadMetaChannels(chstr) ==
    IF chstr = AllText
    THEN [status |-> "ok", channels |-> [k \in 1..256 |-> k - 1]]
    ELSE PiecesChannels(Split(chstr, ","))

\* ---- the written form of a channel spec
\* An entry is [lo, hi, range]: the literal lo (range FALSE) or lo:hi.
SpecItems ==
    {[lo |-> n, hi |-> n, range |-> FALSE] : n \in SpecNumbers}
    \cup {[lo |-> a, hi |-> b, range |-> TRUE] : a \in SpecNumbers, b \in SpecNumbers}

\* A number in decimal
RECURSIVE Decimal(_)
Decimal(n) ==
    IF n < 10 THEN <<DigitChars[n + 1]>>
    ELSE Decimal(n \div 10) \o <<DigitChars[(n % 10) + 1]>>

ItemText(it) ==
    IF it.range THEN Decimal(it.lo) \o <<":">> \o Decimal(it.hi) ELSE Decimal(it.lo)

\* The entries joined by commas
RECURSIVE SpecText(_)
SpecText(items) ==
    IF Len(items) = 1 THEN ItemText(items[1])
    ELSE ItemText(items[1]) \o <<",">> \o SpecText(Tail(items))

\* Values of snsSaveChanSubset that are no channel spec
MalformedTexts == {<<>>, <<"1", ",", ",", "3">>, <<"1", ":", "2", ":", "3">>,
                   <<"1", ":">>, <<"a">>}

\* ---- _find_pl_times
MaxPulses == 3     \* pulses (rising edges) of a synthetic trigger signal
MaxPeriod == 4     \* period of the pulses, in samples: 2..MaxPeriod
MaxLead == 2       \* low samples before the first pulse: 1..MaxLead

\* The low and high levels a trigger signal takes.
PlLevels == {<<0, 1>>, <<0 - 5, 3>>}

\* pl > np.mean(pl), sample by sample (mean = sum / n, compared exactly).
AboveMean(pl) ==
    [k \in 1..Len(pl) |-> IF pl[k] * Len(pl) > SumSeq(pl) THEN 1 ELSE 0]

\* np.convolve([1, -1], x, mode='same') for len(x) >= 2: element k is
\* x[k] - x[k-1], with x[-1] = 0.
EdgeDetect(x) == [k \in 1..Len(x) |-> x[k] - (IF k = 1 THEN 0 ELSE x[k - 1])]

\* A mark for any transition, rising or falling.
IsEdgeMark(d) == d # 0

\* pl_edge_detect[1:] == 1
IsRisingMark(d) == d = 1

\* _find_pl_times(pl), lines 632-638.  Indices are 0-based as in the code.
\* Result: [status, idx].
FindPlTimes(pl) ==
    IF pl = <<>>
    THEN [status |-> "ValueError", idx |-> <<>>]     \* convolve: v cannot be empty
    ELSE IF Len(pl) = 1
    THEN [status |-> "ok", idx |-> <<>>]             \* 'same' of lengths 2 and 1
    ELSE LET d == EdgeDetect(AboveMean(pl))
             rest == [k \in 1..(Len(d) - 1) |-> d[k + 1]]          \* [1:]
         IN  [status |-> "ok",
              idx |-> SortedSeq({k - 1 : k \in {j \in 1..Len(rest) :
                                                  IsRisingMark(rest[j])}})]

\* A trigger signal of n samples with k pulses: low until the first rising
\* transition at index r0, then high for h samples out of every p.
PulseTrain(n, k, p, h, r0, lv) ==
    [i \in 1..n |->
        IF \E j \in 0..(k - 1) : r0 + j * p <= i - 1 /\ i - 1 < r0 + j * p + h
        THEN lv[2] ELSE lv[1]]

\* The synthetic trigger signals: k pulses evenly spaced at period p, first
\* sample low, the signal ending after the last rising transition and
\* before a further pulse would start.
PulseTrains ==
    LET all == {[f |-> "find_pl", k |-> k, p |-> p, h |-> h, r0 |-> r0, lv |-> lv,
                 n |-> n] :
                   k \in 0..MaxPulses, p \in 2..MaxPeriod, h \in 1..(MaxPeriod - 1),
                   r0 \in 1..MaxLead, lv \in PlLevels,
                   n \in 1..(MaxLead + MaxPulses * MaxPeriod)}
        ok(r) == /\ r.h < r.p
                 /\ r.n <= r.r0 + r.k * r.p
                 /\ r.k >= 1 => r.n >= r.r0 + (r.k - 1) * r.p + 1
    IN  {[f |-> r.f, k |-> r.k, p |-> r.p, h |-> r.h, r0 |-> r.r0, lv |-> r.lv,
          pl |-> PulseTrain(r.n, r.k, r.p, r.h, r.r0, r.lv)] : r \in {x \in all : ok(x)}}

\* ---- _rm_pl_i
MaxSigLen == 3     \* samples of a channel handed to _rm_pl_i: 1..MaxSigLen
MaxEdgeIdx == 4    \* edge indices 0..MaxEdgeIdx
MaxEdgeCount == 3  \* edges handed to _rm_pl_i: 0..MaxEdgeCount

\* The constant subtracted from, and re-added to, unsigned samples.
Recenter == 32767

RECURSIVE Pow2(_)
Pow2(w) == IF w = 0 THEN 1 ELSE 2 * Pow2(w - 1)

\* A value stored into a signed / unsigned integer array of w bits.
WrapSigned(x, w) == ((x + Pow2(w - 1)) % Pow2(w)) - Pow2(w - 1)
WrapUnsigned(x, w) == x % Pow2(w)

\* A float cast to an integer type: rounded toward zero (b > 0).
TruncDiv(a, b) == IF a >= 0 THEN a \div b ELSE 0 - ((0 - a) \div b)

\* The sample types: [signed, w] for dtype.str '<i2', '<u2', '|u1'.
SampleTypes == {[signed |-> TRUE, w |-> 16], [signed |-> FALSE, w |-> 16],
                [signed |-> FALSE, w |-> 8]}

\* The sample values a channel of each type is drawn from.
SampleValues(t) ==
    IF t.signed THEN {0 - 3, 5, 32767}
    ELSE IF t.w = 16 THEN {0, 32767, 65535}
    ELSE {0, 255}

\* chan_sig.mean(dtype=chan_sig.dtype) of a non-empty channel: the sum
\* accumulated in the sample type, divided, cast back to the sample type.
MeanInType(sig, w) == TruncDiv(WrapSigned(SumSeq(sig), w), Len(sig))

\* Lines 593-605: result_sig, in the signed type of the same width.  The
\* exact differences are kept next to the stored values.
Centered(sig, t) ==
    [i \in 1..Len(sig) |->
        LET exact == IF t.signed THEN sig[i] - MeanInType(sig, t.w)
                     ELSE sig[i] - Recenter
        IN  [exact |-> exact, stored |-> WrapSigned(exact, t.w)]]

\* np.diff(pl_edge_idx)
Gaps(edges) == [k \in 1..(Len(edges) - 1) |-> edges[k + 1] - edges[k]]

\* The shortest gap between consecutive edges.
ShortestGap(edges) ==
    CHOOSE g \in Range(Gaps(edges)) : \A h \in Range(Gaps(edges)) : g <= h

\* Line 589: pl_len = int(np.diff(pl_edge_idx).max())
PlLen(edges) ==
    CHOOSE g \in Range(Gaps(edges)) : \A h \in Range(Gaps(edges)) : g >= h

\* Line 612: the cycle starting at edge number i (1-based) is copied into
\* the stack if it ends before the end of the signal.
CycleCopied(edges, i, n) == edges[i] + PlLen(edges) < n

\* Lines 611-614: the row indices (0-based, as in the code) the loop over
\* all n_pl edges writes to.
RowsWritten(edges, n) == {i - 1 : i \in {j \in 1..Len(edges) : CycleCopied(edges, j, n)}}

\* Lines 610-613: row i of the (n_pl - 1) x pl_len stack sig_pl.
StackRow(res, edges, i) ==
    IF CycleCopied(edges, i, Len(res))
    THEN [j \in 1..PlLen(edges) |-> res[edges[i] + j]]
    ELSE [j \in 1..PlLen(edges) |-> 0]

\* Lines 615-616: the column means of the stack cast to the sample type,
\* minus their own mean cast to the sample type.
Template(res, edges, w) ==
    LET rows == Len(edges) - 1
        avg == [j \in 1..PlLen(edges) |->
                  TruncDiv(SumSeq([i \in 1..rows |-> StackRow(res, edges, i)[j]]), rows)]
        m == TruncDiv(SumSeq(avg), PlLen(edges))
    IN  [j \in 1..PlLen(edges) |-> WrapSigned(avg[j] - m, w)]

\* Line 622, result_sig[st:end] -= pl_template[:l] for the interval after
\* edge i: the slice is clipped to the signal, and the assignment raises
\* unless the two lengths agree or the template piece has one element.
SliceLen(edges, i, n) == Min(edges[i + 1], n) - Min(edges[i], n)

SubtractRaises(edges, n) ==
    \E i \in 1..(Len(edges) - 1) :
        LET l == edges[i + 1] - edges[i]
        IN  SliceLen(edges, i, n) # l /\ l # 1

\* Lines 618-622: result_sig after the template is subtracted from every
\* inter-edge interval.
Subtracted(res, tpl, edges, w) ==
    [k \in 1..Len(res) |->
        IF \E i \in 1..(Len(edges) - 1) : edges[i] <= k - 1 /\ k - 1 < edges[i + 1]
        THEN LET i == CHOOSE x \in 1..(Len(edges) - 1) :
                          edges[x] <= k - 1 /\ k - 1 < edges[x + 1]
                 l == edges[i + 1] - edges[i]
             IN  WrapSigned(res[k] - tpl[IF l = 1 THEN 1 ELSE k - edges[i]], w)
        ELSE res[k]]

\* Lines 623-629: chan_sig written back from result_sig.
WrittenBack(res, t) ==
    [k \in 1..Len(res) |->
        IF t.signed THEN res[k] ELSE WrapUnsigned(res[k] + Recenter, t.w)]

\* _rm_pl_i(chan_sig, pl_edge_idx), lines 588-629, on a channel of type t.
\* Edge indices are 0-based as in the code.  `oob` is what the build makes
\* of the write to row n_pl - 1 of the (n_pl - 1)-row stack at line 613:
\* "raise" (IndexError) or "skip" (an unchecked write outside the array).
\* Result: [status, sig, centered, pl_len, template].
RmPl(sig, t, edges, oob) ==
    LET none == [status |-> "ValueError", sig |-> sig, centered |-> <<>>,
                 pl_len |-> 0, template |-> <<>>]
    IN  IF Len(edges) < 2
        THEN none                                   \* max() of an empty array
        ELSE LET c == Centered(sig, t)
                 res == [k \in 1..Len(sig) |-> c[k].stored]
                 tpl == Template(res, edges, t.w)
                 out(st, s) == [status |-> st, sig |-> s, centered |-> c,
                                pl_len |-> PlLen(edges), template |-> tpl]
             IN  IF CycleCopied(edges, Len(edges), Len(sig)) /\ oob = "raise"
                 THEN out("IndexError", sig)
                 ELSE IF SubtractRaises(edges, Len(sig))
                 THEN out("ValueError", sig)
                 ELSE out("ok", WrittenBack(Subtracted(res, tpl, edges, t.w), t))

\* Strictly increasing index sequences of 0..MaxEdgeCount edges.
EdgeSeqs ==
    {SortedSeq(S) : S \in {X \in SUBSET (0..MaxEdgeIdx) : Cardinality(X) <= MaxEdgeCount}}

\* Channels of 1..MaxSigLen samples of type t.
Signals(t) == UNION {[1..n -> SampleValues(t)] : n \in 1..MaxSigLen}

\* ------------------------------------- OdorSession._make_stimuli, the sniffs
MaxSniffTime == 4     \* sniff event times 1..MaxSniffTime

\* times[(times > lo) & (times < hi)]
Masked(times, lo, hi) == SelectSeq(times, LAMBDA t : t > lo /\ t < hi)

\* np.where(exhales > t)[0][0], as a 1-based index; 0 when the mask is empty.
FirstExhIdx(exhales, t) ==
    LET after == {k \in 1..Len(exhales) : exhales[k] > t}
    IN  IF after = {} THEN 0 ELSE CHOOSE k \in after : \A j \in after : k <= j

\* The inhalations and exhalations stored for a stimulus whose final valve
\* opens at fvon and closes at fvoff (odor.py lines 210-226).  The slice
\* exhales[first_exh_idx : last_exh_idx] is half-open and 0-based, with
\* last_exh_idx = min(first_exh_idx + num_inhs + 1, len(exhales)).
StimulusSniffs(inhales, exhales, fvon, fvoff) ==
    LET inhs_fv == Masked(inhales, fvon, fvoff)
        num_inhs == Len(inhs_fv)
        first_inh == CHOOSE x \in Range(inhs_fv) : \A y \in Range(inhs_fv) : x <= y
        first_exh_idx == FirstExhIdx(exhales, first_inh) - 1
        last_exh_idx == Min(first_exh_idx + num_inhs + 1, Len(exhales))
    IN  [inhales |-> inhs_fv,
         exhales |-> IF inhs_fv = <<>> THEN <<>>
                     ELSE IF FirstExhIdx(exhales, first_inh) = 0 THEN <<>>
                     ELSE SubSeq(exhales, first_exh_idx + 1, last_exh_idx)]

\* Increasing sequences of sniff event times.
SniffTrains == {SortedSeq(S) : S \in SUBSET (1..MaxSniffTime)}

\* Final-valve windows: an opening and the first closing after it.
FinalValve == {v \in (0..MaxSniffTime) \X (1..(MaxSniffTime + 1)) : v[1] < v[2]}
\* ----------------------------------------------------- the specifications
vars == <<rtVars, orchVars, fnVars>>

\* The orchestrator's state while only the byte-file helpers are exercised.
OrchIdle ==
    /\ variant = "sgl" /\ clean = TRUE /\ prefixKind = "plain" /\ nRuns = 1
    /\ neural = <<>> /\ streamChs = {} /\ eventChs = {} /\ plTrig = <<>>
    /\ pre0 = {} /\ plEdges = <<>> /\ runData = <<>>
    /\ exists = {} /\ created = {} /\ tmpdir = FALSE
    /\ datSegs = <<>> /\ lfp = <<>> /\ chanLen = <<>> /\ plDone = {} /\ metaTab = <<>>
    /\ descriptor = [exists |-> FALSE, rec |-> <<>>]
    /\ pc = "idle" /\ iRun = 1 /\ phase = "pre" /\ outcome = "running"
    /\ failedAt = "none" /\ totalSize = 0 /\ sampsPerCh = 0 /\ fsLocal = <<>>
    /\ nSamplesByCh = <<>> /\ totalExpected = 0 /\ prefixes = <<>>
    /\ completed = FALSE /\ metaArgs = <<>>
    /\ everTmp = FALSE /\ milestones = {}
    /\ resPc = "idle" /\ resStatus = "none" /\ resArgs = <<>>

\* The byte-file helpers' state while an orchestrator runs.
RtIdle ==
    /\ rtPc = "idle" /\ rtRaw = <<>> /\ rtNch = 1 /\ rtWidth = 1
    /\ rtSprSep = 1 /\ rtSprMrg = 1 /\ rtOverwrite = FALSE /\ rtAppend = FALSE
    /\ rtChan0 = <<>> /\ rtChan = <<>> /\ rtStatus = "none" /\ rtOut = <<>>


\* The single-function calls' state while another specification runs.
FnIdle == fnPc = "idle" /\ fnIn = <<>> /\ fnOut = <<>>
\* ------------------------------------------------------------------ SpecRT
MaxBytes == 18    \* raw files of 0..MaxBytes bytes (3 rows of MaxCh samples of MaxWidth bytes)

InitRT ==
    /\ rtPc = "init"
    /\ rtNch \in 1..MaxCh
    /\ rtWidth \in 1..MaxWidth
    /\ rtSprSep \in 1..MaxSpr
    /\ rtSprMrg \in 1..MaxSpr
    /\ \E n \in 0..MaxBytes : rtRaw = LabelledFile(n)
    /\ rtOverwrite \in BOOLEAN
    /\ rtAppend \in BOOLEAN
    /\ rtChan0 \in {[i \in 1..rtNch |-> NoFile], OldFiles(rtNch, rtWidth),
                   PartialFiles(rtNch, rtWidth)}
    /\ rtChan = rtChan0
    /\ rtStatus = "none"
    /\ rtOut = <<>>
    /\ OrchIdle
    /\ FnIdle

\* One call of _separate_channels.
RtSeparate ==
    /\ rtPc = "init"
    /\ LET r == SeparateChannels(rtRaw, rtWidth, rtNch, rtSprSep, rtChan,
                                 rtOverwrite, rtAppend)
       IN  /\ rtPc' = IF r.status = "ok" THEN "separated" ELSE "error"
           /\ rtStatus' = r.status
           /\ rtChan' = r.files
    /\ UNCHANGED <<rtRaw, rtNch, rtWidth, rtSprSep, rtSprMrg, rtOverwrite,
                   rtAppend, rtChan0, rtOut>>
    /\ UNCHANGED <<orchVars, fnVars>>

MaxAppends == 2   \* append-mode calls that follow the first call on a prefix

\* The bytes a successful call adds to the last channel's scratch file.
AddedPerCall == Len(Column(rtRaw, rtWidth, rtNch, rtNch - 1, 0))

\* How many append-mode calls have followed the first call.
AppendsDone ==
    LET before == IF rtAppend THEN Len(rtChan0[rtNch].bytes) ELSE 0
    IN  IF AddedPerCall = 0 THEN 0
        ELSE (Len(rtChan[rtNch].bytes) - before) \div AddedPerCall - 1

\* A further call of _separate_channels on the same prefix, with
\* append=True, after a call that returned.
RtSeparateAppend ==
    /\ rtPc \in {"separated", "appended"}
    /\ AppendsDone < MaxAppends
    /\ LET r == SeparateChannels(rtRaw, rtWidth, rtNch, rtSprSep, rtChan, FALSE, TRUE)
       IN  /\ rtPc' = IF r.status = "ok" THEN "appended" ELSE "append_error"
           /\ rtStatus' = r.status
           /\ rtChan' = r.files
    /\ UNCHANGED <<rtRaw, rtNch, rtWidth, rtSprSep, rtSprMrg, rtOverwrite,
                   rtAppend, rtChan0, rtOut>>
    /\ UNCHANGED <<orchVars, fnVars>>

\* One call of _merge_channels into a file opened for writing.
RtMerge ==
    /\ rtPc = "separated"
    /\ LET r == MergeChannels(rtChan, rtWidth, rtNch, rtSprMrg)
       IN  /\ rtPc' = IF r.status = "ok" THEN "merged" ELSE "error"
           /\ rtStatus' = r.status
           /\ rtOut' = r.bytes
    /\ UNCHANGED <<rtRaw, rtNch, rtWidth, rtSprSep, rtSprMrg, rtOverwrite,
                   rtAppend, rtChan0, rtChan>>
    /\ UNCHANGED <<orchVars, fnVars>>

NextRT == RtSeparate \/ RtSeparateAppend \/ RtMerge

SpecRT == InitRT /\ [][NextRT]_vars


\* -------------------------------------------------------------------- Spec
\* The state at the call of an orchestrator: its arguments, and a file
\* system in which at most one of the final artifacts already exists.
Init ==
    /\ RtIdle
    /\ FnIdle
    /\ variant \in {"sgl", "oephys"}
    /\ clean \in BOOLEAN
    /\ prefixKind \in {"plain", "reldir", "abs"}
    /\ nRuns \in 1..MaxRuns
    /\ neural \in {SortedSeq(S) : S \in NonEmptySubsets(Channels)}
    /\ streamChs \in {S \in SUBSET Channels : Cardinality(S) <= 1}
    /\ eventChs \in {S \in SUBSET Channels : Cardinality(S) <= 1}
    /\ plTrig \in {<<>>} \cup {<<c>> : c \in Channels}
    /\ pre0 \in {S \in SUBSET Arts : Cardinality(S) <= 1}
    /\ exists = {Final(a) : a \in pre0}
    /\ created = {}
    /\ tmpdir = FALSE
    /\ runData = <<>> /\ plEdges = <<>>
    /\ datSegs = <<>> /\ lfp = <<>> /\ chanLen = <<>> /\ plDone = {} /\ metaTab = <<>>
    /\ descriptor = [exists |-> FALSE, rec |-> <<>>]
    /\ pc = "start" /\ iRun = 1 /\ phase = "pre" /\ outcome = "running"
    /\ failedAt = "none" /\ totalSize = 0 /\ sampsPerCh = 0 /\ fsLocal = <<>>
    /\ nSamplesByCh = <<>> /\ totalExpected = 0 /\ prefixes = <<>>
    /\ completed = FALSE /\ metaArgs = <<>>
    /\ everTmp = FALSE /\ milestones = {}
    /\ resPc = "idle" /\ resStatus = "none" /\ resArgs = <<>>

Next ==
    \/ Start
    \/ CheckFinals
    \/ ReadMetas
    \/ Mkdir
    \/ CreateDat
    \/ RunBegin
    \/ Separate
    \/ Pl
    \/ Unpack
    \/ Account
    \/ Merge
    \/ SizeAssert
    \/ MakeLfp
    \/ Adc
    \/ MakeMeta
    \/ SizeCheck
    \/ \E a \in Arts : Rename(a)
    \/ Finally
    \/ Except1
    \/ Finally2
    \/ Resume

Spec == Init /\ [][Next]_vars


\* ------------------------------------------------------------------ SpecFn
\* The arguments of one call of one helper.
FnInputs ==
    {[f |-> "make_lfp", n |-> n, fs |-> fs] : n \in 0..MaxChanLen, fs \in LfpFsSet}
    \cup {[f |-> "read_meta", items |-> its, chstr |-> SpecText(its)] :
             its \in UNION {[1..n -> SpecItems] : n \in 1..MaxItems}}
    \cup {[f |-> "read_meta", items |-> <<>>, chstr |-> t] :
             t \in MalformedTexts \cup {AllText}}
    \cup PulseTrains
    \cup UNION {{[f |-> "rm_pl", t |-> t, sig |-> sig, edges |-> e] :
                    sig \in Signals(t), e \in EdgeSeqs} : t \in SampleTypes}
    \cup {[f |-> "make_stimuli", inhales |-> i, exhales |-> e,
            fvon |-> v[1], fvoff |-> v[2]] :
             i \in SniffTrains, e \in SniffTrains, v \in FinalValve}

InitFn ==
    /\ fnPc = "call"
    /\ fnIn \in FnInputs
    /\ fnOut = <<>>
    /\ RtIdle
    /\ OrchIdle

\* _make_lfp on one channel.
FnMakeLfp ==
    /\ fnPc = "call" /\ fnIn.f = "make_lfp"
    /\ fnOut' = MakeLfpAppends(fnIn.n, fnIn.fs)
    /\ fnPc' = "done"
    /\ UNCHANGED <<fnIn, rtVars, orchVars>>

\* _read_meta: the channel list.
FnReadMeta ==
    /\ fnPc = "call" /\ fnIn.f = "read_meta"
    /\ fnOut' = ReadMetaChannels(fnIn.chstr)
    /\ fnPc' = "done"
    /\ UNCHANGED <<fnIn, rtVars, orchVars>>

\* _find_pl_times on a trigger signal.
FnFindPlTimes ==
    /\ fnPc = "call" /\ fnIn.f = "find_pl"
    /\ fnOut' = FindPlTimes(fnIn.pl)
    /\ fnPc' = "done"
    /\ UNCHANGED <<fnIn, rtVars, orchVars>>

\* _rm_pl_i on one channel.
FnRmPl ==
    /\ fnPc = "call" /\ fnIn.f = "rm_pl"
    /\ \E oob \in {"raise", "skip"} :
          fnOut' = RmPl(fnIn.sig, fnIn.t, fnIn.edges, oob)
    /\ fnPc' = "done"
    /\ UNCHANGED <<fnIn, rtVars, orchVars>>

\* The sniff pairing of OdorSession._make_stimuli for one stimulus; fvoff is
\* the first valve end after fvon.
FnMakeStimuli ==
    /\ fnPc = "call" /\ fnIn.f = "make_stimuli"
    /\ fnOut' = StimulusSniffs(fnIn.inhales, fnIn.exhales, fnIn.fvon, fnIn.fvoff)
    /\ fnPc' = "done"
    /\ UNCHANGED <<fnIn, rtVars, orchVars>>

NextFn ==
    \/ FnMakeLfp
    \/ FnReadMeta
    \/ FnFindPlTimes
    \/ FnRmPl
    \/ FnMakeStimuli

SpecFn == InitFn /\ [][NextFn]_vars
\* ---------------------------------------------------------------- claims

\* The case C8 is about: a fresh separation (no scratch files yet, default
\* flags) of a file whose size is a multiple of channel count x sample
\* width, with both block sizes at least the channel count.
C8_Case ==
    /\ ~rtOverwrite /\ ~rtAppend
    /\ \A i \in 1..rtNch : ~rtChan0[i].exists
    /\ Len(rtRaw) % (rtNch * rtWidth) = 0
    /\ rtSprSep >= rtNch
    /\ rtSprMrg >= rtNch

\* C8: for every multiplexed file whose size is a multiple of
\* (channel count x sample width), _separate_channels followed by
\* _merge_channels over the same channels reproduces the file byte for byte,
\* for every channel count, sample width and block sizes at least the
\* channel count (several blocks and a final partial block included).
C8_RoundTrip ==
    (C8_Case /\ rtPc # "init")
    => (/\ rtPc # "error"
        /\ rtPc = "merged" => rtOut = rtRaw)

\* C8 on files that hold at least one sample row: the round trip holds.
C8_RoundTripNonEmpty ==
    (C8_Case /\ rtPc # "init" /\ Len(rtRaw) > 0)
    => (/\ rtPc # "error"
        /\ rtPc = "merged" => rtOut = rtRaw)

\* A non-empty file of several blocks with a final partial block, two or
\* more channels and 2-byte samples, has been separated and merged back.
C8_Witness ==
    /\ C8_Case
    /\ rtPc = "merged"
    /\ rtNch >= 2
    /\ rtWidth = 2
    /\ Len(rtRaw) > 0
    /\ Len(rtRaw) \div (rtNch * rtWidth) > rtSprMrg \div rtNch
    /\ (Len(rtRaw) \div (rtNch * rtWidth)) % (rtSprMrg \div rtNch) # 0
    /\ Len(rtRaw) \div rtWidth > rtSprSep - (rtSprSep % rtNch)
    /\ rtOut = rtRaw

\* ------------------------------------------------- claims on the orchestrators

\* The final artifacts this invocation created, wrote or replaced.
PublishedBy == {a \in Arts : Final(a) \in created}

Terminated == pc = "done"

\* A step of a try block raised.
Failed == failedAt # "none"

\* The ordinary invocation: save_prefix is a plain name, so that every
\* staged path lies in the scratch directory, and no final artifact exists
\* beforehand.
Ordinary == prefixKind = "plain" /\ pre0 = {}

\* C1: when an invocation of either orchestrator terminates, succeeded or
\* failed, the set of final artifacts it created is empty or all three
\* (stated for the ordinary invocation).
C1_AllOrNothing == (Ordinary /\ Terminated) => PublishedBy \in {{}, Arts}

\* C2: no final path is created by the invocation before every run's steps,
\* make_meta and the consolidated-size check have completed (stated for
\* the ordinary invocation).
C2_PublishOrdering ==
    (Ordinary /\ PublishedBy # {}) => {"runs", "meta", "size"} \subseteq milestones

\* C3: with cleanup enabled, if a step fails after the scratch directory
\* was created (a powerline calibration failure included), then at
\* termination the scratch directory and every file in it are gone.
C3_CleanupOnFailure ==
    (Terminated /\ clean /\ Failed /\ everTmp)
    => (~tmpdir /\ \A p \in exists : ~InTmp(p))

\* C3 witness: a calibration failure with cleanup enabled, after scratch
\* files of the run were written, has run to termination.
C3_Witness ==
    /\ Terminated /\ clean /\ everTmp
    /\ failedAt = "pl_calibration"
    /\ ~tmpdir

\* C4: with preservation requested (cleanup flag false), if a step fails
\* after scratch files exist, then at termination the scratch directory is
\* intact and a resume descriptor has been persisted.
C4_PreservedFailure ==
    (Terminated /\ ~clean /\ Failed /\ \E p \in exists : InTmp(p))
    => (tmpdir /\ descriptor.exists /\ descriptor.rec # <<>>)

\* C5: if any one of the three final paths exists at invocation start, the
\* invocation creates no scratch directory and creates, replaces or
\* modifies no final artifact.
C5_RefusalToStart ==
    pre0 # {} => (/\ ~everTmp
                  /\ PublishedBy = {}
                  /\ \A a \in Arts : Final(a) \in exists <=> a \in pre0)

\* C6: when a declared neural or meta channel is absent from a run's channel
\* set, the invocation fails without the scratch directory, a scratch file
\* or a staged artifact ever having been created.
C6_PreMutationValidation ==
    failedAt = "validate" => (~everTmp /\ created = {})

\* C7: a resume descriptor persisted by the orchestrator is loaded by
\* resume(), which calls make_meta with exactly the arguments of the failed
\* invocation's make_meta call.
C7_ResumeRoundTrip ==
    (resPc = "done" /\ descriptor.rec # <<>>)
    => (resArgs # <<>> /\ resArgs = metaArgs)

\* Samples per channel summed over the runs of the invocation.
TotalSamplesPerChannel ==
    SumSeq([r \in 1..nRuns |-> runData[r].len[neural[1]]])

\* C9: the published recording holds the declared neural channels only; its
\* size is (summed per-channel samples) x (neural channels) x (sample
\* width), also when the neural channels are a proper subset of the
\* recorded ones.
C9_NeuralOnly ==
    (Terminated /\ outcome = "ok" /\ Final("dat") \in created)
    => (/\ \A k \in 1..Len(datSegs) : datSegs[k].chs = neural
        /\ DatSize(datSegs) = TotalSamplesPerChannel * Len(neural) * ItemSize)

\* The loop stands between two runs, or has been left, with no failure.
BetweenRuns ==
    /\ ~Failed
    /\ pc \in {"run_begin", "make_meta", "size_check", "rename_dat", "rename_lfp",
               "rename_meta"}

\* The staged recording and LFP store hold exactly runs 1..k, in order.
HoldsRuns(k) ==
    /\ Len(datSegs) = k
    /\ \A j \in 1..k :
          /\ datSegs[j].run = j
          /\ datSegs[j].chs = MergedChannels(runData[j])
          /\ datSegs[j].n = runData[j].len[neural[1]]
    /\ k >= 1 => /\ DOMAIN lfp = Range(neural)
                 /\ \A c \in Range(neural) :
                       /\ Len(lfp[c]) = k
                       /\ \A j \in 1..k :
                             /\ lfp[c][j].run = j
                             /\ lfp[c][j].n =
                                  DecimatedLen(runData[j].len[c],
                                               runData[j].fs \div TargetFreq)

\* Is s a prefix of t
IsPrefix(s, t) == Len(s) <= Len(t) /\ \A k \in 1..Len(s) : s[k] = t[k]

\* C10: after run k has been processed the staged recording is the merged
\* data of runs 1..k in declared order and each LFP series the decimated
\* segments of runs 1..k in that order; what an earlier run appended is
\* never rewritten, and each run contributes once.
C10_RunOrderedAppend ==
    /\ [](BetweenRuns => HoldsRuns(iRun - 1))
    /\ [][/\ IsPrefix(datSegs, datSegs')
          /\ Len(datSegs') <= Len(datSegs) + 1
          /\ \A c \in DOMAIN lfp :
                c \in DOMAIN lfp' /\ IsPrefix(lfp[c], lfp'[c])]_vars

\* C10 witness: two runs have been processed, the second appended after the
\* first, and the loop has been left without failure.
C10_Witness ==
    /\ BetweenRuns
    /\ iRun = 3
    /\ Len(datSegs) = 2
    /\ datSegs[1].n # datSegs[2].n


\* ------------------------------------------- claims C11..C20
\* Samples per neural channel of runs 1..k, as the input files hold them.
CumulativeSamples(k) == SumSeq([j \in 1..k |-> runData[j].len[neural[1]]])

\* C11: a run_ends table written by make_meta has one entry per run, is
\* strictly increasing, its entry k is the cumulative per-channel neural
\* sample count of runs 1..k, and its last entry is the per-channel sample
\* count of the consolidated recording.
C11_RunEnds ==
    metaTab # <<>>
    => /\ Len(metaTab) = nRuns
       /\ \A k \in 1..Len(metaTab) : metaTab[k] = CumulativeSamples(k)
       /\ \A k \in 1..(Len(metaTab) - 1) : metaTab[k] < metaTab[k + 1]
       /\ metaTab[Len(metaTab)] = SumSeq([k \in 1..Len(datSegs) |-> datSegs[k].n])

\* C11 witness: a table of two runs of different lengths has been written.
C11_Witness ==
    /\ Len(metaTab) = 2
    /\ metaTab[2] # 2 * metaTab[1]
    /\ Len(datSegs) = 2

\* The single call of helper f has returned or raised.
FnDone(f) == fnPc = "done" /\ fnIn.f = f

RECURSIVE Expansion(_)
Expansion(items) ==
    IF items = <<>> THEN <<>>
    ELSE (IF items[1].range
          THEN SortedSeq(items[1].lo .. items[1].hi)
          ELSE <<items[1].lo>>) \o Expansion(Tail(items))

\* C13: _read_meta expands a comma-separated list of literal numbers and
\* inclusive low:high ranges into the concatenation, in written order, of
\* each literal and of every integer low..high, and expands "all" to
\* exactly the channels 0..255.
C13_ChannelSubset ==
    FnDone("read_meta")
    => /\ fnIn.items # <<>> => /\ fnOut.status = "ok"
                               /\ fnOut.channels = Expansion(fnIn.items)
       /\ fnIn.chstr = AllText => /\ fnOut.status = "ok"
                                  /\ Len(fnOut.channels) = 256
                                  /\ \A k \in 1..256 : fnOut.channels[k] = k - 1

\* C13 witness: a spec of a range of several channels followed by a
\* two-digit literal has been parsed.
C13_Witness ==
    /\ FnDone("read_meta")
    /\ Len(fnIn.items) = 2
    /\ fnIn.items[1].range /\ fnIn.items[1].lo + 2 <= fnIn.items[1].hi
    /\ ~fnIn.items[2].range /\ fnIn.items[2].lo >= 10
    /\ fnOut.status = "ok"

\* The trigger channel is used for run r and its edges have been counted.
TriggerUsed(r) ==
    /\ plEdges # <<>>
    /\ IF variant = "sgl" THEN PlTruthy(plTrig) ELSE PlActive(runData[r])

\* The edge count n deviates from (samples / fs) seconds x 60 Hz by more
\* than 20 %.
DeviatesOver20Percent(n, samples, f) ==
    LET expectedTimesF == samples * 60
        d == n * f - expectedTimesF
    IN  5 * (IF d < 0 THEN 0 - d ELSE d) > expectedTimesF

\* C14: in either orchestrator, when the trigger channel is used for a run
\* and the number of rising edges deviates from (run duration x mains
\* frequency) by more than 20 %, the invocation aborts before that run's
\* data is merged into the recording (stated for invocations of one run).
C14_CalibrationAbort ==
    (/\ nRuns = 1
     /\ runData # <<>>
     /\ TriggerUsed(1)
     /\ DeviatesOver20Percent(plEdges[1], runData[1].len[neural[1]], runData[1].fs))
    => datSegs = <<>>

\* The trigger channel was specified and available for run r.
TriggerSpecified(r) ==
    /\ PlTruthy(plTrig)
    /\ IF variant = "sgl" THEN plTrig[1] \in runData[r].chs
       ELSE plTrig[1] \in runData[r].adc

\* C15: in either orchestrator, when a trigger channel is specified and
\* calibration passes, every declared neural channel of the run has gone
\* through _rm_pl_i before the run is merged and before its LFP is made:
\* the merged and the decimated samples are the filtered ones.
C15_RemovalApplied ==
    /\ \A k \in 1..Len(datSegs) :
          TriggerSpecified(datSegs[k].run) => Range(neural) \subseteq datSegs[k].pl
    /\ \A c \in DOMAIN lfp : \A j \in 1..Len(lfp[c]) :
          TriggerSpecified(lfp[c][j].run) => lfp[c][j].pl

\* ---------------------------------------------------------------- C16
\* The cycles of a call that lie wholly inside the signal: edge number i
\* (1-based) with edges[i] + g <= n, for a cycle length g.
FullCycles(edges, g, n) == {i \in 1..Len(edges) : edges[i] + g <= n}

\* The sample-wise average of exactly the full cycles of length g, demeaned,
\* computed on the centred samples as the code rounds (toward zero).
FullCycleTemplate(res, edges, g, w) ==
    LET F == FullCycles(edges, g, Len(res))
        col(j) == LET S[X \in SUBSET F] ==
                          IF X = {} THEN 0
                          ELSE LET i == CHOOSE x \in X : TRUE
                               IN  res[edges[i] + j] + S[X \ {i}]
                  IN  S[F]
        avg == [j \in 1..g |-> IF F = {} THEN 0 ELSE TruncDiv(col(j), Cardinality(F))]
        m == IF g = 0 THEN 0 ELSE TruncDiv(SumSeq(avg), g)
    IN  [j \in 1..g |-> WrapSigned(avg[j] - m, w)]

\* C16: whenever _rm_pl_i completes, the template length it used is the
\* shortest gap between consecutive edges, and its template is the demeaned
\* sample-wise average of exactly the cycles lying wholly inside the signal.
C16_TemplateCycle ==
    (FnDone("rm_pl") /\ fnOut.status = "ok") =>
        /\ fnOut.pl_len = ShortestGap(fnIn.edges)
        /\ fnOut.template =
             FullCycleTemplate([k \in 1..Len(fnIn.sig) |-> fnOut.centered[k].stored],
                               fnIn.edges, ShortestGap(fnIn.edges), fnIn.t.w)

\* The template length is the one claimed, for the calls where all gaps agree.
C16_EqualGapsLength ==
    (FnDone("rm_pl") /\ fnOut.status = "ok"
        /\ ShortestGap(fnIn.edges) = PlLen(fnIn.edges)) =>
        fnOut.pl_len = ShortestGap(fnIn.edges)

\* A completed call on edges with unequal gaps.
C16_Witness ==
    /\ FnDone("rm_pl") /\ fnOut.status = "ok"
    /\ ShortestGap(fnIn.edges) < PlLen(fnIn.edges)

\* ---------------------------------------------------------------- C17
\* The midpoint of the unsigned range of w bits (32767 for 16 bits).
Midpoint(w) == Pow2(w - 1) - 1

ZeroTemplate == \A j \in 1..Len(fnOut.template) : fnOut.template[j] = 0

\* A call of _rm_pl_i on an unsigned channel that got past the recentering.
UnsignedRecentered ==
    FnDone("rm_pl") /\ ~fnIn.t.signed /\ Len(fnIn.edges) >= 2

\* C17: on an unsigned channel of any width w, every sample v is recentred
\* to v - midpoint(w) in the signed intermediate, stored there without
\* wraparound, and with a zero template the write-back returns exactly v.
C17_UnsignedRecentering ==
    UnsignedRecentered =>
        /\ \A k \in 1..Len(fnIn.sig) :
              fnOut.centered[k].stored = fnIn.sig[k] - Midpoint(fnIn.t.w)
        /\ (fnOut.status = "ok" /\ ZeroTemplate) => fnOut.sig = fnIn.sig

\* The write-back half alone: with a zero template a completed call returns
\* the samples it was given.
C17_ZeroTemplateRoundTrip ==
    (UnsignedRecentered /\ fnOut.status = "ok" /\ ZeroTemplate) =>
        fnOut.sig = fnIn.sig

\* A completed call on an unsigned 16-bit channel holding the largest value,
\* with a zero template.
C17_Witness ==
    /\ UnsignedRecentered /\ fnOut.status = "ok" /\ ZeroTemplate
    /\ fnIn.t.w = 16 /\ 65535 \in Range(fnIn.sig)

\* ---------------------------------------------------------------- C18
\* The step in which _rm_pl_i raises for a neural channel of the run.
RmPlFailure == failedAt # "rm_pl" /\ failedAt' = "rm_pl"

\* C18: when powerline removal fails for a neural channel of a run, the run
\* is not aborted: the orchestrator goes on to the sample accounting with
\* the scratch file of every neural channel of the run written.
C18_FailureIsolation ==
    [][RmPlFailure =>
          /\ pc' = "account"
          /\ \A c \in Range(neural) : ChanFn("ch", iRun, c) \in exists']_vars

\* A run aborted by a failed removal although the trigger had two or more
\* edges.
C18_Witness ==
    /\ failedAt = "rm_pl" /\ pc = "except1"
    /\ ~RmPlRaises(plEdges[1])

\* ---------------------------------------------------------------- C19
\* A call of _rm_pl_i on a channel with fewer samples than the template
\* length computed from the edges.
ShortChannel ==
    /\ FnDone("rm_pl") /\ Len(fnIn.edges) >= 2
    /\ Len(fnIn.sig) < PlLen(fnIn.edges)

\* C19: on a channel shorter than the computed template length _rm_pl_i
\* returns normally and leaves every sample of the channel unchanged.
C19_ShortChannelUnmodified ==
    ShortChannel => (fnOut.status = "ok" /\ fnOut.sig = fnIn.sig)

\* The frame half alone: a short channel is never returned with a sample
\* changed, whether the call raises or not.
C19_ShortChannelSamplesKept ==
    ShortChannel => fnOut.sig = fnIn.sig

\* A call on a short channel that raised.
C19_Witness ==
    ShortChannel /\ fnOut.status # "ok"

\* The index of the j-th rising transition of a synthetic trigger signal:
\* its first high sample (0-based).
RisingAt(j) == fnIn.r0 + (j - 1) * fnIn.p

\* C20: for a reference channel with exactly K rising edges evenly spaced
\* at period P (first sample low), _find_pl_times returns exactly K indices,
\* strictly increasing, each within 1 sample of the corresponding rising
\* transition, and none for a falling transition.
C20_EdgeDetection ==
    FnDone("find_pl")
    => /\ fnOut.status = "ok"
       /\ Len(fnOut.idx) = fnIn.k
       /\ \A j \in 1..(Len(fnOut.idx) - 1) : fnOut.idx[j] < fnOut.idx[j + 1]
       /\ \A j \in 1..Len(fnOut.idx) :
             /\ fnOut.idx[j] - RisingAt(j) \in {0 - 1, 0, 1}
             \* the samples at the index and after it are low, then high
             /\ fnIn.pl[fnOut.idx[j] + 1] = fnIn.lv[1]
             /\ fnIn.pl[fnOut.idx[j] + 2] = fnIn.lv[2]

\* C20 witness: a signal of three pulses with falling transitions between
\* them and a level pair that is not 0/1 has been searched.
C20_Witness ==
    /\ FnDone("find_pl")
    /\ fnIn.k = 3 /\ fnIn.h < fnIn.p /\ fnIn.lv[1] < 0
    /\ Len(fnOut.idx) = 3

\* ---------------------------------------------------------------- C21
\* A call of _separate_channels on a raw file whose size is no multiple of
\* (channel count x sample width) has returned or raised.
BadSizeSeparated ==
    rtPc # "init" /\ Len(rtRaw) % (rtNch * rtWidth) # 0

\* C21: when the raw file size is not a multiple of (channel count x sample
\* width), _separate_channels fails and the scratch files are as they were
\* before the call: none created, truncated or appended to.
C21_SizeValidation ==
    BadSizeSeparated => (rtPc = "error" /\ rtChan = rtChan0)

\* The failure half alone: such a call never completes, and never appends.
C21_BadSizeFails ==
    BadSizeSeparated =>
        /\ rtPc = "error"
        /\ \A i \in 1..rtNch : Len(rtChan[i].bytes) <= Len(rtChan0[i].bytes)

\* A call with default flags and no scratch files present failed on the
\* size assertion.
C21_Witness ==
    /\ BadSizeSeparated /\ rtStatus = "AssertionError"
    /\ ~rtOverwrite /\ ~rtAppend
    /\ \A i \in 1..rtNch : ~rtChan0[i].exists

\* ---------------------------------------------------------------- C22
\* A call of _separate_channels made while some target scratch file exists
\* has returned or raised.
TargetsExisted == rtPc # "init" /\ \E i \in 1..rtNch : rtChan0[i].exists

\* The samples of channel i (1-based) in the raw file.
ChannelSamples(i) == Column(rtRaw, rtWidth, rtNch, i - 1, 0)

\* C22: with scratch files present, _separate_channels without overwrite and
\* without append fails and changes nothing; with overwrite (and a raw file
\* of valid size, blocks of at least one sample row) it completes and every
\* channel's scratch file holds exactly the raw file's samples of that
\* channel, the old contents replaced.
C22_OverwriteAuthorization ==
    TargetsExisted =>
        /\ (~rtOverwrite /\ ~rtAppend) =>
               (rtPc = "error" /\ rtStatus = "ValueError" /\ rtChan = rtChan0)
        /\ (rtOverwrite /\ ~rtAppend
              /\ Len(rtRaw) % (rtNch * rtWidth) = 0 /\ rtSprSep >= rtNch) =>
               \A i \in 1..rtNch :
                   rtChan[i] = [exists |-> TRUE, bytes |-> ChannelSamples(i)]

\* The refusal half alone.
C22_RefusesWithoutFlags ==
    (TargetsExisted /\ ~rtOverwrite /\ ~rtAppend) =>
        (rtPc = "error" /\ rtStatus = "ValueError" /\ rtChan = rtChan0)

\* A call with overwrite set, on existing scratch files, has ended.
C22_Witness ==
    /\ TargetsExisted /\ rtOverwrite /\ ~rtAppend
    /\ Len(rtRaw) > 0 /\ Len(rtRaw) % (rtNch * rtWidth) = 0 /\ rtSprSep >= rtNch
    /\ rtNch >= 2

\* ---------------------------------------------------------------- C23
\* The step that brings the LFP container into existence.
LfpCreated == Staged("lfp") \notin exists /\ Staged("lfp") \in exists'

\* The _make_lfp call of the current run returns without raising.
LfpCallCompletes == pc = "lfp" /\ failedAt' = "none"

\* The scratch file of every neural channel of the current run is there and
\* long enough to be decimated.
LfpInputsReady ==
    \A c \in Range(neural) :
        /\ ChanFn("ch", iRun, c) \in exists
        /\ ~DecimateRaises(chanLen[ChanFn("ch", iRun, c)])

\* C23: within an invocation the LFP container is created only by the
\* _make_lfp call of the first run, with nothing appended before; a creating
\* call on an existing path fails; every completed call, the first included,
\* appends exactly one segment to each neural channel's series; and a call
\* with create_file false on the existing container completes without
\* recreating or truncating it.
C23_LfpLifecycle ==
    /\ [][LfpCreated => (pc = "lfp" /\ iRun = 1 /\ CreateLfpFile(iRun))]_vars
    /\ [](\A d \in BOOLEAN : LfpOpen(TRUE, TRUE, d) = "ValueError")
    /\ [][LfpCallCompletes =>
            /\ DOMAIN lfp' = Range(neural)
            /\ \A c \in Range(neural) :
                  /\ Len(lfp'[c]) = iRun
                  /\ lfp'[c][iRun].run = iRun
                  /\ iRun > 1 => SubSeq(lfp'[c], 1, iRun - 1) = lfp[c]]_vars
    /\ [][(pc = "lfp" /\ iRun > 1 /\ Staged("lfp") \in exists /\ LfpInputsReady)
            => LfpCallCompletes]_vars

\* C23 witness: the container holds two segments per neural channel, the
\* second appended by the call of the second run.
C23_Witness ==
    /\ BetweenRuns /\ iRun = 3
    /\ Staged("lfp") \in exists
    /\ \A c \in Range(neural) : Len(lfp[c]) = 2 /\ lfp[c][1].n # lfp[c][2].n

\* ---------------------------------------------------------------- C24
\* The orchestrator has called make_meta with empty stream and event
\* channel dicts (and resume() has not run).
MetaCalledWithoutAux ==
    /\ streamChs = {} /\ eventChs = {}
    /\ metaArgs # <<>>
    /\ resPc = "idle"

\* C24: a make_meta call with empty stream and event channel dicts completes
\* and writes a run-boundary table with one entry per run, whatever channel
\* numbers were recorded.
C24_NoAuxChannelsLegal ==
    MetaCalledWithoutAux =>
        /\ failedAt # "make_meta"
        /\ "meta" \in milestones
        /\ Len(metaTab) = nRuns

\* The same for sgl recordings in which every run recorded channel 1.
C24_LegalWithChannelOne ==
    (MetaCalledWithoutAux /\ variant = "sgl"
        /\ \A k \in 1..nRuns : 1 \in runData[k].chs) =>
        /\ failedAt # "make_meta"
        /\ "meta" \in milestones
        /\ Len(metaTab) = nRuns

\* An sgl invocation on a recording without channel 1 called make_meta with
\* empty dicts, and the call raised.
C24_Witness ==
    /\ MetaCalledWithoutAux /\ variant = "sgl"
    /\ \A k \in 1..nRuns : 1 \notin runData[k].chs
    /\ failedAt = "make_meta"

\* ---------------------------------------------------------------- C25
\* C25: a resume descriptor exists only in an invocation that ended in an
\* exception with cleanup disabled and whose scratch directory is still
\* there: never after success, never with cleanup enabled, never without a
\* scratch directory.
C25_DescriptorOnlyOnPreservedFailure ==
    descriptor.exists =>
        /\ pc = "done" /\ outcome = "raised"
        /\ ~clean
        /\ tmpdir

\* C25 witness: an invocation whose neural phase completed, whose metadata
\* step failed with cleanup disabled, and which left a descriptor.
C25_Witness ==
    /\ descriptor.exists
    /\ "runs" \in milestones
    /\ failedAt = "make_meta"

\* ---------------------------------------------------------------- C26
\* Samples per channel of the sgl run r.
RunSamples(r) == runData[r].len[CHOOSE c \in runData[r].chs : TRUE]

\* The trigger of the current sgl run holds exactly (run duration x 60)
\* rising edges: edges / 60 = samples / fs.
ExactEdgeCount ==
    /\ variant = "sgl" /\ runData # <<>> /\ plEdges # <<>>
    /\ iRun \in 1..nRuns
    /\ plEdges[1] * runData[iRun].fs = RunSamples(iRun) * 60

\* C26: in process_spikegl_recording a run whose trigger channel holds
\* exactly (that run's duration x 60) rising edges passes the calibration
\* check, however many runs the invocation has.
C26_CalibrationPerRun ==
    ExactEdgeCount => failedAt # "pl_calibration"

\* The same for invocations of a single run.
C26_CalibrationSingleRun ==
    (ExactEdgeCount /\ nRuns = 1) => failedAt # "pl_calibration"

\* A run of a two-run invocation with the exact edge count failed the check.
C26_Witness ==
    ExactEdgeCount /\ nRuns = 2 /\ failedAt = "pl_calibration"

\* ---------------------------------------------------------------- C27
\* Bytes of the neural channels of runs 1..k of an oephys invocation.
NeuralBytes(k) ==
    ItemSize * SumSeq([r \in 1..k |->
                          SumSeq([j \in 1..Len(neural) |-> runData[r].len[neural[j]]])])

\* Every run read so far holds all neural channels, all of the same length.
EqualLengthsPerRun ==
    \A r \in 1..Len(runData) :
        /\ Range(neural) \subseteq runData[r].chs
        /\ \A c \in Range(neural) : runData[r].len[c] = runData[r].len[neural[1]]

\* C27: in process_oEphys_rec, when the neural channels of each run have
\* equal length, neither the equal-length check nor the size assertion
\* fails for any run, and once run k is accounted for total_expected_dat_size
\* is the neural bytes of runs 1..k.
C27_PerRunAccounting ==
    (variant = "oephys" /\ EqualLengthsPerRun) =>
        /\ failedAt \notin {"equal_length", "size_assert"}
        /\ pc \in {"merge", "size_assert", "lfp", "adc"} =>
              totalExpected = NeuralBytes(iRun)

\* The same for the first run of an invocation.
C27_FirstRunAccounting ==
    (variant = "oephys" /\ EqualLengthsPerRun /\ iRun = 1) =>
        /\ failedAt \notin {"equal_length", "size_assert"}
        /\ pc \in {"merge", "size_assert", "lfp", "adc"} =>
              totalExpected = NeuralBytes(iRun)

\* The second run of an invocation, of the same length as the first, has
\* failed the size assertion.
C27_Witness ==
    /\ variant = "oephys" /\ EqualLengthsPerRun
    /\ iRun = 2 /\ failedAt = "size_assert"
    /\ runData[2].len[neural[1]] = runData[1].len[neural[1]]

\* ---------------------------------------------------------------- C28
\* The first try block of process_oEphys_rec has failed and its handler is
\* about to run.
NeuralPhaseFailed == variant = "oephys" /\ pc = "except1"

\* C28: when a step of the first try block of process_oEphys_rec fails, the
\* invocation ends there, with cleanup enabled or not: control never goes on
\* to the make_meta call of the second try block.
C28_FailedNeuralPhaseStops ==
    [][NeuralPhaseFailed => (pc' # "make_meta" /\ phase' # "try2")]_vars

\* The same with cleanup enabled.
C28_StopsWhenCleaning ==
    [][(NeuralPhaseFailed /\ clean) => (pc' = "done" /\ outcome' = "raised")]_vars

\* make_meta has been called after a failure of the first try block.
C28_Witness ==
    /\ variant = "oephys" /\ ~clean
    /\ "runs" \notin milestones
    /\ metaArgs # <<>>

\* ---------------------------------------------------------------- C29
\* Index k (1-based) of the channel lies outside every inter-edge interval:
\* before the first edge, or at or after the last one.
OutsideEdges(k) ==
    \/ k - 1 < fnIn.edges[1]
    \/ k - 1 >= fnIn.edges[Len(fnIn.edges)]

\* A call of _rm_pl_i with at least two edges has ended.
RmPlCalled == FnDone("rm_pl") /\ Len(fnIn.edges) >= 2

\* C29: _rm_pl_i changes a channel only inside the inter-edge intervals:
\* every sample before the first edge and from the last edge on has the same
\* value after the call as before, for signed and unsigned sample types.
C29_SubtractionFrame ==
    RmPlCalled =>
        \A k \in 1..Len(fnIn.sig) : OutsideEdges(k) => fnOut.sig[k] = fnIn.sig[k]

\* The same for unsigned sample types.
C29_SubtractionFrameUnsigned ==
    (RmPlCalled /\ ~fnIn.t.signed) =>
        \A k \in 1..Len(fnIn.sig) : OutsideEdges(k) => fnOut.sig[k] = fnIn.sig[k]

\* A completed call on a signed channel with a sample after the last edge.
C29_Witness ==
    /\ RmPlCalled /\ fnIn.t.signed /\ fnOut.status = "ok"
    /\ OutsideEdges(Len(fnIn.sig))

\* ---------------------------------------------------------------- C30
\* C30: while _rm_pl_i builds the cycle stack, every row index written is
\* smaller than the number of rows (edges - 1), so no write falls outside
\* the stack, and every sample range copied lies inside the signal, for
\* every strictly increasing edge array of two or more edges.
C30_StackBounds ==
    RmPlCalled =>
        /\ \A r \in RowsWritten(fnIn.edges, Len(fnIn.sig)) : r < Len(fnIn.edges) - 1
        /\ fnOut.status # "IndexError"
        /\ \A i \in 1..Len(fnIn.edges) :
              CycleCopied(fnIn.edges, i, Len(fnIn.sig)) =>
                  fnIn.edges[i] + PlLen(fnIn.edges) <= Len(fnIn.sig)

\* The read half alone: every sample range copied lies inside the signal.
C30_ReadsInsideSignal ==
    RmPlCalled =>
        \A i \in 1..Len(fnIn.edges) :
            CycleCopied(fnIn.edges, i, Len(fnIn.sig)) =>
                fnIn.edges[i] + PlLen(fnIn.edges) <= Len(fnIn.sig)

\* A call in which the cycle after the last edge fits into the signal.
C30_Witness ==
    /\ RmPlCalled
    /\ Len(fnIn.edges) - 1 \in RowsWritten(fnIn.edges, Len(fnIn.sig))
    /\ fnOut.status = "IndexError"

\* ---------------------------------------------------------------- C31
\* The step that creates or replaces the final artifact a.
FinalWritten(a) == Final(a) \notin created /\ Final(a) \in created'

\* C31: for every save_prefix the staged recording, LFP and metadata paths
\* lie inside the scratch directory and differ from the final paths, and a
\* final path comes to hold this invocation's data only by the rename of its
\* staged copy.
C31_StagedInScratch ==
    /\ [](\A a \in Arts : InTmp(Staged(a)) /\ Staged(a) # Final(a))
    /\ [][\A a \in Arts :
            FinalWritten(a) =>
                pc = (CASE a = "dat" -> "rename_dat"
                        [] a = "lfp" -> "rename_lfp"
                        [] a = "meta" -> "rename_meta")]_vars

\* The same for a save_prefix that is no absolute path.
C31_StagedInScratchRelative ==
    /\ [](prefixKind # "abs" =>
            \A a \in Arts : InTmp(Staged(a)) /\ Staged(a) # Final(a))
    /\ [][prefixKind # "abs" =>
            \A a \in Arts :
              FinalWritten(a) =>
                pc = (CASE a = "dat" -> "rename_dat"
                        [] a = "lfp" -> "rename_lfp"
                        [] a = "meta" -> "rename_meta")]_vars

\* With an absolute save_prefix the recording's final path has been opened
\* for writing while the run loop has not started.
C31_Witness ==
    /\ prefixKind = "abs"
    /\ Final("dat") \in created
    /\ pc = "run_begin" /\ iRun = 1

\* ---------------------------------------------------------------- C32
\* A fresh separation (default flags, no scratch file present) has returned,
\* followed by zero or more append-mode calls that returned.
FreshBatch ==
    /\ rtPc \in {"separated", "appended"}
    /\ ~rtOverwrite /\ ~rtAppend
    /\ \A i \in 1..rtNch : ~rtChan0[i].exists

\* The number of samples channel i's scratch file holds.
SamplesHeld(i) == Len(rtChan[i].bytes) \div rtWidth

\* C32: after a fresh separation followed by any number of successful
\* append-mode calls on the same prefix, every channel's scratch file holds
\* the same number of whole samples (one per row of the raw file and per
\* call); and a successful append-mode call leaves each file's previous
\* contents as a prefix followed by that channel's samples of the raw file.
C32_EqualScratchLengths ==
    /\ [](FreshBatch =>
            \A i \in 1..rtNch :
                /\ Len(rtChan[i].bytes) % rtWidth = 0
                /\ SamplesHeld(i) = SamplesHeld(1)
                /\ SamplesHeld(i) = (AppendsDone + 1) * (Len(ChannelSamples(i)) \div rtWidth)
                /\ (Len(rtRaw) > 0 => rtChan[i].exists))
    /\ [][(rtPc \in {"separated", "appended"} /\ rtPc' = "appended") =>
            \A i \in 1..rtNch :
                rtChan'[i] = [exists |-> TRUE,
                              bytes |-> rtChan[i].bytes \o ChannelSamples(i)]]_vars

\* A fresh separation of a non-empty file of two or more channels, read in
\* more than one block, followed by two append-mode calls.
C32_Witness ==
    /\ FreshBatch /\ rtPc = "appended"
    /\ rtNch >= 2 /\ Len(rtRaw) > rtSprSep * rtWidth
    /\ SamplesHeld(1) = 3 * (Len(ChannelSamples(1)) \div rtWidth)
    /\ SamplesHeld(rtNch) = SamplesHeld(1)

\* ---------------------------------------------------------------- C33
\* The trigger channel number given by the caller is among the channels of
\* run r (sgl: the channels of the meta file; oephys: the ADC files found).
TriggerPresent(r) ==
    /\ plTrig # <<>>
    /\ plTrig[1] \in (IF variant = "sgl" THEN runData[r].chs ELSE runData[r].adc)

\* The first run has passed the trigger step without an error.
PastTriggerStep ==
    /\ iRun = 1
    /\ pc = (IF variant = "sgl" THEN "merge" ELSE "unpack")

\* C33: when a trigger channel number is given and is present in the
\* recording, channel 0 included, the trigger step finds the edges of that
\* channel (and checks their number) before the run goes on; only when no
\* trigger is given is the step skipped.
C33_TriggerChannelZero ==
    PastTriggerStep =>
        /\ TriggerPresent(1) => plEdges # <<>>
        /\ plTrig = <<>> => plEdges = <<>>

\* The same for trigger channel numbers other than 0.
C33_TriggerChannelNonzero ==
    PastTriggerStep =>
        /\ (TriggerPresent(1) /\ plTrig[1] # 0) => plEdges # <<>>
        /\ plTrig = <<>> => plEdges = <<>>

\* A run with trigger channel 1 present has passed the trigger step with its
\* edges counted.
C33_Witness ==
    /\ PastTriggerStep
    /\ TriggerPresent(1) /\ plTrig = <<1>>
    /\ plEdges # <<>>

\* ---------------------------------------------------------------- C34
\* The sniff pairing of one stimulus has been computed.
StimulusDone == fnPc = "done" /\ fnIn.f = "make_stimuli"

\* The exhalations recorded after the stimulus's first inhalation.
ExhalesAfterFirstInhale ==
    LET inhs == Masked(fnIn.inhales, fnIn.fvon, fnIn.fvoff)
    IN  IF inhs = <<>> THEN {}
        ELSE {k \in 1..Len(fnIn.exhales) : fnIn.exhales[k] > inhs[1]}

\* C34: for a stimulus with at least one inhalation inside its final-valve
\* window and at least as many exhalations after the first of them, the
\* number of exhalations stored equals the number of inhalations stored.
C34_SniffPairing ==
    (/\ StimulusDone
     /\ fnOut.inhales # <<>>
     /\ Cardinality(ExhalesAfterFirstInhale) >= Len(fnOut.inhales))
    => Len(fnOut.exhales) = Len(fnOut.inhales)

\* What the slice stores: one exhalation more than the inhalations, or all
\* that follow the first inhalation when there are fewer; the counts are
\* equal exactly when the recording holds no further exhalation.
C34_OneMoreExhale ==
    (StimulusDone /\ fnOut.inhales # <<>>)
    => /\ Len(fnOut.exhales) =
            Min(Len(fnOut.inhales) + 1, Cardinality(ExhalesAfterFirstInhale))
       /\ fnOut.inhales = Masked(fnIn.inhales, fnIn.fvon, fnIn.fvoff)

\* A stimulus with two inhalations in its window and three exhalations after
\* the first of them.
C34_Witness ==
    /\ StimulusDone
    /\ Len(fnOut.inhales) = 2
    /\ Cardinality(ExhalesAfterFirstInhale) = 3
======
